---- MODULE Spec2Model ----
(***************************************************************************)
(* Rustora dataset session engine: RustoraSession (core_engine/session.rs) *)
(* over DuckStorage (core_engine/storage.rs).                              *)
(*                                                                         *)
(* Strings are sequences of one-character strings, so that sanitization,   *)
(* name formatting and path parsing are computed character by character.   *)
(* A dataset is a record [cols, rows]: cols a sequence of column names,    *)
(* rows a sequence of tuples of integers (one integer per column).         *)
(*                                                                         *)
(* The SQL the session builds is a sequence of statement records; the raw  *)
(* fragments a caller passes are read by parse tables, and a batch runs    *)
(* every statement of its text, as Connection::execute_batch does.  Names  *)
(* are lower case and hold no quote character, so DuckDB's case-folding    *)
(* and identifier quoting play no part.                                    *)
(***************************************************************************)
EXTENDS Integers, Sequences, FiniteSets, TLC

(***************************************************************************)
(* Bounds of the model.                                                    *)
(***************************************************************************)
\* next_counter is called at most this many times in one behaviour
MaxCounter == 2
\* at most this many datasets (tables of the open store and transient
\* entries together)
MaxDatasets == 3
\* no dataset name is longer than this many characters
MaxNameLen == 12

\* sanitize_column_name: the longest column name, in bytes
MaxColumnBytes == 256

(***************************************************************************)
(* Characters and strings.                                                 *)
(***************************************************************************)
Letters == {"a", "b", "c", "d", "e", "f", "g", "i", "k", "l", "m", "n", "o",
            "p", "q", "r", "s", "t", "u", "v", "x", "y", "z"}
Uppers == {"A", "B", "C", "D", "E", "F", "I", "K", "L", "N", "O", "P", "R",
           "S", "T", "U", "V"}
Digits == {"0", "1", "2", "3", "4", "5", "6", "7", "8", "9"}

\* a letter outside ASCII: U+00E9, two bytes in UTF-8
EAcute == "é"

\* char::is_alphanumeric
IsAlphanumeric(c) == c \in Letters \cup Uppers \cup Digits \cup {EAcute}

\* sanitize_table_name: every character that is not alphanumeric or '_'
\* becomes '_'
sanitize_table_name(name) ==
    [i \in 1..Len(name) |->
        IF IsAlphanumeric(name[i]) \/ name[i] = "_" THEN name[i] ELSE "_"]

\* one decimal digit as a character
DigitChar(d) ==
    CASE d = 0 -> "0" [] d = 1 -> "1" [] d = 2 -> "2" [] d = 3 -> "3"
      [] d = 4 -> "4" [] d = 5 -> "5" [] d = 6 -> "6" [] d = 7 -> "7"
      [] d = 8 -> "8" [] d = 9 -> "9"

\* Display of a u64: its decimal digits, most significant first
RECURSIVE FormatU64(_)
FormatU64(n) ==
    IF n < 10 THEN <<DigitChar(n)>>
    ELSE FormatU64(n \div 10) \o <<DigitChar(n % 10)>>

DigitValue(c) == CHOOSE d \in 0..9 : DigitChar(d) = c

\* the number a string of decimal digits denotes
RECURSIVE ParseDigits(_)
ParseDigits(s) ==
    IF s = <<>> THEN 0
    ELSE 10 * ParseDigits(SubSeq(s, 1, Len(s) - 1)) + DigitValue(s[Len(s)])

\* position of the last occurrence of character c in s, 0 when absent
RECURSIVE LastIndexOf(_, _)
LastIndexOf(s, c) ==
    IF s = <<>> THEN 0
    ELSE IF s[Len(s)] = c THEN Len(s)
    ELSE LastIndexOf(SubSeq(s, 1, Len(s) - 1), c)

\* Path::file_name: the component after the last '/'
FileName(path) == SubSeq(path, LastIndexOf(path, "/") + 1, Len(path))

\* Path::file_stem: the file name without its last extension; a name with
\* no '.', or whose only '.' is its first character, is its own stem
FileStem(path) ==
    LET f == FileName(path)
        dot == LastIndexOf(f, ".")
    IN  IF dot <= 1 THEN f ELSE SubSeq(f, 1, dot - 1)

\* Path::extension: the part after the last '.', "" when there is none
Extension(path) ==
    LET f == FileName(path)
        dot == LastIndexOf(f, ".")
    IN  IF dot <= 1 THEN <<>> ELSE SubSeq(f, dot + 1, Len(f))

\* code point of a character: the order String's Ord (and DuckDB's ORDER BY
\* table_name on these ASCII names) compares by
CharCode(c) ==
    CASE c = " " -> 32 [] c = "!" -> 33 [] c = "\"" -> 34 [] c = "%" -> 37
      [] c = "'" -> 39 [] c = "*" -> 42 [] c = "+" -> 43 [] c = "-" -> 45
      [] c = "." -> 46 [] c = "/" -> 47
      [] c = "0" -> 48 [] c = "1" -> 49 [] c = "2" -> 50 [] c = "3" -> 51
      [] c = "4" -> 52 [] c = "5" -> 53 [] c = "6" -> 54 [] c = "7" -> 55
      [] c = "8" -> 56 [] c = "9" -> 57
      [] c = ";" -> 59 [] c = "<" -> 60 [] c = "=" -> 61 [] c = ">" -> 62
      [] c = "A" -> 65 [] c = "B" -> 66 [] c = "C" -> 67 [] c = "D" -> 68
      [] c = "E" -> 69 [] c = "F" -> 70 [] c = "I" -> 73 [] c = "K" -> 75
      [] c = "L" -> 76
      [] c = "N" -> 78 [] c = "O" -> 79 [] c = "P" -> 80 [] c = "R" -> 82
      [] c = "S" -> 83 [] c = "T" -> 84 [] c = "U" -> 85 [] c = "V" -> 86
      [] c = "\\" -> 92 [] c = "_" -> 95
      [] c = "a" -> 97 [] c = "b" -> 98 [] c = "c" -> 99 [] c = "d" -> 100
      [] c = "e" -> 101 [] c = "f" -> 102 [] c = "g" -> 103 [] c = "i" -> 105
      [] c = "k" -> 107 [] c = "l" -> 108 [] c = "m" -> 109 [] c = "n" -> 110
      [] c = "o" -> 111 [] c = "p" -> 112 [] c = "q" -> 113 [] c = "r" -> 114
      [] c = "s" -> 115 [] c = "t" -> 116 [] c = "u" -> 117 [] c = "v" -> 118
      [] c = "x" -> 120 [] c = "y" -> 121 [] c = "z" -> 122
      [] c = EAcute -> 233

\* str::to_lowercase on the characters of the model
LowerChar(c) ==
    IF c \in Uppers THEN CHOOSE l \in Letters : CharCode(l) = CharCode(c) + 32
    ELSE c

ToLowercase(s) == [i \in 1..Len(s) |-> LowerChar(s[i])]

\* lexicographic order of two strings by code point (str's Ord)
RECURSIVE StrLess(_, _)
StrLess(a, b) ==
    IF b = <<>> THEN FALSE
    ELSE IF a = <<>> THEN TRUE
    ELSE IF a[1] = b[1] THEN StrLess(Tail(a), Tail(b))
    ELSE CharCode(a[1]) < CharCode(b[1])

\* the strings of a finite set in ascending order
RECURSIVE SortedSeq(_)
SortedSeq(S) ==
    IF S = {} THEN <<>>
    ELSE LET m == CHOOSE x \in S : \A y \in S \ {x} : StrLess(x, y)
         IN  <<m>> \o SortedSeq(S \ {m})

\* the elements of a sequence, as a set
Range(s) == {s[i] : i \in 1..Len(s)}

\* Vec::sort without the dedup: ascending, equal strings kept
RECURSIVE SortOnly(_)
SortOnly(s) ==
    IF s = <<>> THEN <<>>
    ELSE LET i == CHOOSE i \in 1..Len(s) :
                    \A j \in 1..Len(s) : ~StrLess(s[j], s[i])
         IN  <<s[i]>> \o SortOnly(SubSeq(s, 1, i - 1) \o SubSeq(s, i + 1, Len(s)))

\* Vec::sort followed by Vec::dedup: ascending, equal neighbours merged
SortDedup(s) == SortedSeq(Range(s))

(***************************************************************************)
(* String literals of the program.                                         *)
(***************************************************************************)
\* a sort that names its result as its source
NoSuffix == <<>>
\* a sort that names its result <name>_sort
SortSuffix == <<"_", "s", "o", "r", "t">>
SortedSuffix == <<"_", "s", "o", "r", "t", "e", "d">>
FilteredSuffix == <<"_", "f", "i", "l", "t", "e", "r", "e", "d">>
GroupedSuffix == <<"_", "g", "r", "o", "u", "p", "e", "d">>
CalcSuffix == <<"_", "c", "a", "l", "c">>
SqlResultPrefix == <<"s", "q", "l", "_", "r", "e", "s", "u", "l", "t">>
DefaultStem == <<"d", "a", "t", "a", "s", "e", "t">>
CsvExts == {<<"c", "s", "v">>, <<"t", "s", "v">>}
ParquetExts == {<<"p", "a", "r", "q", "u", "e", "t">>, <<"p", "q">>}
IpcExts == {<<"i", "p", "c">>, <<"a", "r", "r", "o", "w">>,
            <<"f", "e", "a", "t", "h", "e", "r">>}
SupportedExts == CsvExts \cup ParquetExts \cup IpcExts

(***************************************************************************)
(* Results and options.                                                    *)
(***************************************************************************)
Ok(v) == [ok |-> TRUE, val |-> v]
Err(kind) == [ok |-> FALSE, err |-> kind]
None == [some |-> FALSE]
Some(v) == [some |-> TRUE, v |-> v]

(***************************************************************************)
(* Finite maps (HashMap<String, _>, and the tables of a database).         *)
(***************************************************************************)
EmptyMap == [x \in {} |-> 0]
Put(m, k, v) == [x \in DOMAIN m \cup {k} |-> IF x = k THEN v ELSE m[x]]
Del(m, k) == [x \in DOMAIN m \ {k} |-> m[x]]

(***************************************************************************)
(* The environment: files on disk and project databases.                   *)
(***************************************************************************)
PathD == <<"d", ".", "c", "s", "v">>
PathAB == <<"a", "-", "b", ".", "c", "s", "v">>
PathMissing == <<"m", ".", "c", "s", "v">>
PathXlsx == <<"d", ".", "x", "l", "s", "x">>
PathMissingXlsx == <<"m", ".", "x", "l", "s", "x">>
FilePaths == {PathD, PathAB, PathMissing, PathXlsx, PathMissingXlsx}

\* Path::exists
PathExists(path) == path \in {PathD, PathAB, PathXlsx}

ColK == <<"k">>
ColS == <<"s">>

\* the type the readers infer for a column
ColumnType(col) == IF col = ColS THEN "VARCHAR" ELSE "BIGINT"

\* the text  '; DROP TABLE d; --
InjValue ==
    <<"'", ";", " ", "D", "R", "O", "P", " ", "T", "A", "B", "L", "E", " ", "d",
      ";", " ", "-", "-">>

\* what DuckDB's and Polars' readers load from a file: an integer column k
\* and a text column s, two rows
FileData(path) ==
    [cols |-> <<ColK, ColS>>, rows |-> <<(<<2, InjValue>>), (<<1, <<"x">>>>)>>]

\* the databases a session can hold: the in-memory one of new(), and
\* the project file P1, written by an earlier session
MemDb == ":memory:"
P1 == "p1.duckdb"
ProjectPaths == {P1}
NoStore == "none"

NameD == <<"d">>
NameD1 == <<"d", "_", "1">>
NameAB == <<"a", "-", "b">>
NameMissing == <<"z">>

\* the tables of P1 when the model starts
EarlierTables == Put(EmptyMap, NameD1, [cols |-> <<ColK>>, rows |-> <<(<<5>>), (<<4>>)>>])

(***************************************************************************)
(* Relational evaluation: what the database (and the lazy engine) compute. *)
(***************************************************************************)
\* index of the first element of seq equal to x, 0 when absent
IndexOf(seq, x) ==
    IF \E i \in 1..Len(seq) : seq[i] = x
    THEN CHOOSE i \in 1..Len(seq) :
            seq[i] = x /\ \A j \in 1..(i - 1) : seq[j] # x
    ELSE 0

RemoveAt(seq, i) == SubSeq(seq, 1, i - 1) \o SubSeq(seq, i + 1, Len(seq))

Min(a, b) == IF a < b THEN a ELSE b

\* columns.iter().zip(descending.iter()): pairs up to the shorter length
Zip(columns, descending) ==
    [i \in 1..Min(Len(columns), Len(descending)) |->
        [col |-> columns[i], desc |-> descending[i]]]

\* row a sorts strictly before row b under the keys [idx, desc]
RECURSIVE RowBefore(_, _, _)
RowBefore(a, b, keys) ==
    IF keys = <<>> THEN FALSE
    ELSE LET h == Head(keys)
         IN  IF a[h.idx] = b[h.idx] THEN RowBefore(a, b, Tail(keys))
             ELSE IF h.desc THEN a[h.idx] > b[h.idx] ELSE a[h.idx] < b[h.idx]

\* ORDER BY / LazyFrame::sort
RECURSIVE SortRows(_, _)
SortRows(rows, keys) ==
    IF rows = <<>> THEN <<>>
    ELSE LET i == CHOOSE i \in 1..Len(rows) :
                    /\ \A j \in 1..Len(rows) : ~RowBefore(rows[j], rows[i], keys)
                    /\ \A j \in 1..(i - 1) : RowBefore(rows[i], rows[j], keys)
         IN  <<rows[i]>> \o SortRows(RemoveAt(rows, i), keys)

\* LIMIT limit OFFSET offset / LazyFrame::slice(offset, limit)
SliceRows(rows, offset, limit) ==
    SubSeq(rows, offset + 1, Min(Len(rows), offset + limit))

\* the ascending sequence of a finite set of integers
RECURSIVE AscendingInts(_)
AscendingInts(S) ==
    IF S = {} THEN <<>>
    ELSE LET m == CHOOSE x \in S : \A y \in S : x <= y
         IN  <<m>> \o AscendingInts(S \ {m})

(***************************************************************************)
(* SQL, as the database parses and runs it.  A statement is               *)
(*   [k |-> "ctas", target, q]   CREATE OR REPLACE TABLE target AS q       *)
(*   [k |-> "drop", t]           DROP TABLE t                              *)
(*   [k |-> "drop_if_exists", t] DROP TABLE IF EXISTS t                    *)
(* and a query q is a record [from, pred, order, group, calc, ok]; ok is   *)
(* FALSE for text the parser rejects.                                      *)
(***************************************************************************)
CountCol == <<"n">>

\* a WHERE predicate: conditions [kind, col, op, lit] (kind: true, cmp,
\* null, notnull) and the AND/OR between them;
\* no condition is no WHERE (or WHERE TRUE)
NoPred == [conds |-> <<>>, joins |-> <<>>]

\* the predicate  k > 1
PredGt1 ==
    [conds |-> <<[kind |-> "cmp", col |-> ColK, op |-> <<">">>, lit |-> [t |-> "num", v |-> <<"1">>]]>>,
     joins |-> <<>>]

SelectAll(from) ==
    [from |-> from, pred |-> NoPred, order |-> <<>>, group |-> <<>>,
     aggs |-> FALSE, calc |-> None, ok |-> TRUE]

\* the columns named by an ORDER BY or GROUP BY list all exist
ColumnsExist(cols, wanted) == \A i \in 1..Len(wanted) : IndexOf(cols, wanted[i]) > 0

\* one row per distinct value of column k, with its count
GroupRows(rows, idx) ==
    LET keys == AscendingInts({rows[i][idx] : i \in 1..Len(rows)})
    IN  [i \in 1..Len(keys) |->
            <<keys[i], Cardinality({j \in 1..Len(rows) : rows[j][idx] = keys[i]})>>]

\* a string of decimal digits, which casts to BIGINT
IsInteger(s) == s # <<>> /\ \A i \in 1..Len(s) : s[i] \in Digits

\* the binder or the cast of a constant rejects condition c on these
\* columns: a column that does not exist, or a text literal that is no
\* number against a BIGINT column.  (No input of the model compares a
\* VARCHAR column with a number or with another column; both are rejected.)
CondFails(cols, c) ==
    /\ c.kind # "true"
    /\ \/ IndexOf(cols, c.col) = 0
       \/ /\ c.kind = "cmp"
          /\ \/ c.lit.t \notin {"num", "str"}
             \/ ColumnType(c.col) = "BIGINT" /\ ~IsInteger(c.lit.v)
             \/ ColumnType(c.col) = "VARCHAR" /\ c.lit.t = "num"

\* condition c holds of row r; the tables of the model hold no NULL
CondHolds(cols, r, c) ==
    IF c.kind \in {"true", "notnull"} THEN TRUE
    ELSE IF c.kind = "null" THEN FALSE
    ELSE LET a == r[IndexOf(cols, c.col)]
             int == ColumnType(c.col) = "BIGINT"
             b == IF int THEN ParseDigits(c.lit.v) ELSE c.lit.v
             less(x, y) == IF int THEN x < y ELSE StrLess(x, y)
         IN  CASE c.op = <<"=">> -> a = b
               [] c.op \in {<<"!", "=">>, <<"<", ">">>} -> a # b
               [] c.op = <<">">> -> less(b, a)
               [] c.op = <<">", "=">> -> ~less(a, b)
               [] c.op = <<"<">> -> less(a, b)
               [] c.op = <<"<", "=">> -> ~less(b, a)

\* the predicate holds of row r: AND binds tighter than OR
RECURSIVE PredHolds(_, _, _)
PredHolds(cols, r, pred) ==
    IF pred.conds = <<>> THEN TRUE
    ELSE LET or == IndexOf(pred.joins, "or")
             all(cs) == \A i \in 1..Len(cs) : CondHolds(cols, r, cs[i])
         IN  IF or = 0 THEN all(pred.conds)
             ELSE \/ all(SubSeq(pred.conds, 1, or))
                  \/ PredHolds(cols, r,
                               [conds |-> SubSeq(pred.conds, or + 1, Len(pred.conds)),
                                joins |-> SubSeq(pred.joins, or + 1, Len(pred.joins))])

\* the result of a query against the tables T: [ok, data]
EvalSelect(T, q) ==
    IF q.from \notin DOMAIN T THEN [ok |-> FALSE]
    ELSE
      LET base == T[q.from]
          kidx == IndexOf(base.cols, ColK)
      IN  IF q.pred.conds # <<>> THEN
             IF \E i \in 1..Len(q.pred.conds) : CondFails(base.cols, q.pred.conds[i])
             THEN [ok |-> FALSE]
             ELSE [ok |-> TRUE,
                   data |-> [cols |-> base.cols,
                             rows |-> SelectSeq(base.rows,
                                         LAMBDA r : PredHolds(base.cols, r, q.pred))]]
          ELSE IF q.order # <<>> THEN
             IF ~ColumnsExist(base.cols, [i \in 1..Len(q.order) |-> q.order[i].col])
             THEN [ok |-> FALSE]
             ELSE [ok |-> TRUE,
                   data |-> [cols |-> base.cols,
                             rows |-> SortRows(base.rows,
                                [i \in 1..Len(q.order) |->
                                    [idx |-> IndexOf(base.cols, q.order[i].col),
                                     desc |-> q.order[i].desc]])]]
          ELSE IF q.aggs THEN
             IF q.group # <<ColK>> \/ kidx = 0 THEN [ok |-> FALSE]
             ELSE [ok |-> TRUE,
                   data |-> [cols |-> <<ColK, CountCol>>,
                             rows |-> GroupRows(base.rows, kidx)]]
          ELSE IF q.calc.some THEN
             IF kidx = 0 \/ IndexOf(base.cols, q.calc.v) > 0 THEN [ok |-> FALSE]
             ELSE [ok |-> TRUE,
                   data |-> [cols |-> Append(base.cols, q.calc.v),
                             rows |-> [i \in 1..Len(base.rows) |->
                                         Append(base.rows[i], 2 * base.rows[i][kidx])]]]
          ELSE [ok |-> TRUE, data |-> base]

\* a statement runner whose failing CREATE leaves its target behind, empty
RunStmtLeavingTarget(T, stmt) ==
    IF stmt.k = "ctas" THEN
        LET Create(r) ==
                IF r.ok THEN [T |-> Put(T, stmt.target, r.data), ok |-> TRUE]
                ELSE [T |-> Put(T, stmt.target, [cols |-> <<>>, rows |-> <<>>]),
                      ok |-> FALSE]
        IN  Create(EvalSelect(T, stmt.q))
    ELSE IF stmt.k = "drop" THEN
        IF stmt.t \in DOMAIN T THEN [T |-> Del(T, stmt.t), ok |-> TRUE]
        ELSE [T |-> T, ok |-> FALSE]
    ELSE [T |-> Del(T, stmt.t), ok |-> TRUE]

\* one statement run against T: [T, ok]; a failing statement changes nothing
RunStmt(T, stmt) ==
    IF stmt.k = "ctas" THEN
        LET Create(r) ==
                IF r.ok THEN [T |-> Put(T, stmt.target, r.data), ok |-> TRUE]
                ELSE [T |-> T, ok |-> FALSE]
        IN  Create(EvalSelect(T, stmt.q))
    ELSE IF stmt.k = "drop" THEN
        IF stmt.t \in DOMAIN T THEN [T |-> Del(T, stmt.t), ok |-> TRUE]
        ELSE [T |-> T, ok |-> FALSE]
    ELSE [T |-> Del(T, stmt.t), ok |-> TRUE]

\* the statements of a batch run in order, each committed on its own, up to
\* the first that fails
RECURSIVE RunStmts(_, _)
RunStmts(T, stmts) ==
    IF stmts = <<>> THEN [T |-> T, ok |-> TRUE]
    ELSE LET Rest(r) == IF r.ok THEN RunStmts(r.T, Tail(stmts)) ELSE r
         IN  Rest(RunStmt(T, Head(stmts)))

\* Connection::execute_batch: the whole text is parsed first (a syntax error
\* runs nothing), then the statements run in order
execute_batch(T, batch) ==
    IF \E i \in 1..Len(batch) : batch[i].k = "ctas" /\ ~batch[i].q.ok
    THEN [T |-> T, ok |-> FALSE]
    ELSE RunStmts(T, batch)

(***************************************************************************)
(* Raw SQL fragments passed by callers, and how the parser reads them once *)
(* the session has interpolated them into its statement.                   *)
(***************************************************************************)
WhereGt1 == <<"k", " ", ">", " ", "1">>
WhereIncomplete == <<"k", " ", ">">>
WhereDrop ==
    <<"T", "R", "U", "E", ";", " ", "D", "R", "O", "P", " ", "T", "A", "B", "L", "E",
      " ", "d">>
WhereClauses == {WhereGt1, WhereIncomplete, WhereDrop}

\* the index of the quote q that closes the quoted run whose content starts
\* at i, a doubled quote being content; 0 when the run is not closed
RECURSIVE QuotedEnd(_, _, _)
QuotedEnd(text, i, q) ==
    IF i > Len(text) THEN 0
    ELSE IF text[i] # q THEN QuotedEnd(text, i + 1, q)
    ELSE IF i < Len(text) /\ text[i + 1] = q THEN QuotedEnd(text, i + 2, q)
    ELSE i

\* the content of a quoted run, each doubled quote one quote
RECURSIVE Undouble(_, _)
Undouble(s, q) ==
    IF s = <<>> THEN <<>>
    ELSE IF s[1] = q THEN <<q>> \o Undouble(SubSeq(s, 3, Len(s)), q)
    ELSE <<s[1]>> \o Undouble(Tail(s), q)

WordChar(c) == IsAlphanumeric(c) \/ c \in {"_", "."}

\* the index of the last character of the word that starts at i
RECURSIVE WordEnd(_, _)
WordEnd(text, i) ==
    IF i < Len(text) /\ WordChar(text[i + 1]) THEN WordEnd(text, i + 1) ELSE i

\* the index of the last digit of the run of digits that starts at i; i - 1
\* when there is no digit at i
RECURSIVE DigitsEnd(_, _)
DigitsEnd(text, i) ==
    IF i <= Len(text) /\ text[i] \in Digits THEN DigitsEnd(text, i + 1) ELSE i - 1

\* the index of the last character of the numeric literal that starts at i:
\* digits with at most one point, then an exponent when e is followed by an
\* optional sign and a digit
NumberEnd(text, i) ==
    LET At(j, S) == j <= Len(text) /\ text[j] \in S
        Exponent(m) ==
            IF At(m + 1, {"e", "E"}) /\ At(m + 2, Digits) THEN DigitsEnd(text, m + 2)
            ELSE IF At(m + 1, {"e", "E"}) /\ At(m + 2, {"+", "-"}) /\ At(m + 3, Digits)
            THEN DigitsEnd(text, m + 3)
            ELSE m
        Fraction(w) == Exponent(IF At(w + 1, {"."}) THEN DigitsEnd(text, w + 2) ELSE w)
    IN  Fraction(DigitsEnd(text, i))

\* the SQL tokens of text from position i: 'text' (str), "identifier" (id),
\* comparison operators (op), numeric literals (num), words, other symbols
\* (sym);
\* -- starts a comment that runs to the end of the line; an unclosed quote
\* is an error
RECURSIVE Lex(_, _)
Lex(text, i) ==
    IF i > Len(text) THEN <<>>
    ELSE LET c == text[i]
             two == IF i < Len(text) THEN <<c, text[i + 1]>> ELSE <<c>>
         IN  IF c = " " THEN Lex(text, i + 1)
             ELSE IF two = <<"-", "-">> THEN <<>>
             ELSE IF c \in {"'", "\""} THEN
                 LET e == QuotedEnd(text, i + 1, c)
                 IN  IF e = 0 THEN <<[t |-> "error", v |-> <<>>]>>
                     ELSE <<[t |-> IF c = "'" THEN "str" ELSE "id",
                             v |-> Undouble(SubSeq(text, i + 1, e - 1), c)]>>
                              \o Lex(text, e + 1)
             ELSE IF two \in {<<"!", "=">>, <<">", "=">>, <<"<", "=">>, <<"<", ">">>}
             THEN <<[t |-> "op", v |-> two]>> \o Lex(text, i + 2)
             ELSE IF c \in {"=", ">", "<"}
             THEN <<[t |-> "op", v |-> <<c>>]>> \o Lex(text, i + 1)
             ELSE IF c \in Digits \/ two \in {<<".", d>> : d \in Digits} THEN
                 LET e == NumberEnd(text, i)
                 IN  <<[t |-> "num", v |-> SubSeq(text, i, e)]>> \o Lex(text, e + 1)
             ELSE IF WordChar(c) THEN
                 LET e == WordEnd(text, i)
                 IN  <<[t |-> "word", v |-> SubSeq(text, i, e)]>> \o Lex(text, e + 1)
             ELSE <<[t |-> "sym", v |-> <<c>>]>> \o Lex(text, i + 1)

\* the statements of a token sequence: the runs between the ; symbols
RECURSIVE SplitStmts(_)
SplitStmts(toks) ==
    LET semi == IndexOf(toks, [t |-> "sym", v |-> <<";">>])
    IN  IF semi = 0 THEN <<toks>>
        ELSE <<SubSeq(toks, 1, semi - 1)>>
                 \o SplitStmts(SubSeq(toks, semi + 1, Len(toks)))

\* token tok is the keyword w (keywords are case-insensitive)
Keyword(tok, w) == tok.t = "word" /\ ToLowercase(tok.v) = w

KwTrue == <<"t", "r", "u", "e">>
KwAnd == <<"a", "n", "d">>
KwOr == <<"o", "r">>
KwIs == <<"i", "s">>
KwNot == <<"n", "o", "t">>
KwNull == <<"n", "u", "l", "l">>
KwDrop == <<"d", "r", "o", "p">>
KwTable == <<"t", "a", "b", "l", "e">>
KwLike == <<"l", "i", "k", "e">>
Keywords == {KwTrue, KwAnd, KwOr, KwIs, KwNot, KwNull, KwDrop, KwTable, KwLike}

\* token tok names a column or table; an unquoted name is folded to lower
\* case
IsName(tok) ==
    tok.t = "id" \/ (tok.t = "word" /\ ToLowercase(tok.v) \notin Keywords)
NameOf(tok) == IF tok.t = "id" THEN tok.v ELSE ToLowercase(tok.v)

\* the conditions of a predicate: [ok, conds, joins].  The parser of the
\* model reads TRUE, a comparison of a column with a literal or a name, and
\* IS [NOT] NULL, joined by AND and OR.
RECURSIVE ParseConds(_)
ParseConds(toks) ==
    LET n == Len(toks)
        fail == [ok |-> FALSE, conds |-> <<>>, joins |-> <<>>]
        none == [t |-> "none", v |-> <<>>]
        Joined(first, join, rest) ==
            IF rest.ok
            THEN [ok |-> TRUE, conds |-> <<first>> \o rest.conds,
                  joins |-> <<join>> \o rest.joins]
            ELSE fail
        Conds(head) ==
            IF head.len = 0 THEN fail
            ELSE IF n = head.len
            THEN [ok |-> TRUE, conds |-> <<head.cond>>, joins |-> <<>>]
            ELSE IF Keyword(toks[head.len + 1], KwAnd)
            THEN Joined(head.cond, "and", ParseConds(SubSeq(toks, head.len + 2, n)))
            ELSE IF Keyword(toks[head.len + 1], KwOr)
            THEN Joined(head.cond, "or", ParseConds(SubSeq(toks, head.len + 2, n)))
            ELSE fail
    IN  Conds(
            IF n >= 1 /\ Keyword(toks[1], KwTrue)
            THEN [len |-> 1, cond |-> [kind |-> "true", col |-> <<>>, op |-> <<>>,
                                       lit |-> none]]
            ELSE IF n >= 4 /\ IsName(toks[1]) /\ Keyword(toks[2], KwIs)
                    /\ Keyword(toks[3], KwNot) /\ Keyword(toks[4], KwNull)
            THEN [len |-> 4, cond |-> [kind |-> "notnull", col |-> NameOf(toks[1]),
                                       op |-> <<>>, lit |-> none]]
            ELSE IF n >= 3 /\ IsName(toks[1]) /\ Keyword(toks[2], KwIs)
                    /\ Keyword(toks[3], KwNull)
            THEN [len |-> 3, cond |-> [kind |-> "null", col |-> NameOf(toks[1]),
                                       op |-> <<>>, lit |-> none]]
            ELSE IF n >= 3 /\ IsName(toks[1]) /\ toks[2].t = "op"
                    /\ (toks[3].t \in {"str", "num"} \/ IsName(toks[3]))
            THEN [len |-> 3, cond |-> [kind |-> "cmp", col |-> NameOf(toks[1]),
                                       op |-> toks[2].v, lit |-> toks[3]]]
            ELSE [len |-> 0])

\* "... WHERE <text>": the predicate, and the statements the text appends
\* (the model's parser reads DROP TABLE name); text that does not parse
\* runs nothing
ParseWhere(text) ==
    LET isDrop(st) == Len(st) = 3 /\ Keyword(st[1], KwDrop)
                          /\ Keyword(st[2], KwTable) /\ IsName(st[3])
        Parsed(p, more) ==
            IF p.ok /\ \A i \in 1..Len(more) : isDrop(more[i])
            THEN [ok |-> TRUE, pred |-> [conds |-> p.conds, joins |-> p.joins],
                  tail |-> [i \in 1..Len(more) |->
                               [k |-> "drop", t |-> NameOf(more[i][3])]]]
            ELSE [ok |-> FALSE, pred |-> NoPred, tail |-> <<>>]
        Statements(stmts) ==
            Parsed(ParseConds(stmts[1]), SelectSeq(Tail(stmts), LAMBDA st : st # <<>>))
        Tokens(toks) ==
            IF \E i \in 1..Len(toks) : toks[i].t = "error"
            THEN [ok |-> FALSE, pred |-> NoPred, tail |-> <<>>]
            ELSE Statements(SplitStmts(toks))
    IN  Tokens(Lex(text, 1))

\* a query that goes on with a statement of its own
SqlDropsResult == "SELECT * FROM d; DROP TABLE sql_result_1"
SqlTexts == {"SELECT * FROM d", "SELEC", SqlDropsResult}

\* "CREATE OR REPLACE TABLE t AS <text>"
ParseSql(text) ==
    CASE text = "SELECT * FROM d" -> [q |-> SelectAll(NameD), tail |-> <<>>]
      [] text = SqlDropsResult ->
            [q |-> SelectAll(NameD),
             tail |-> <<[k |-> "drop", t |-> SqlResultPrefix \o <<"_", "1">>]>>]
      [] OTHER -> [q |-> [SelectAll(NameD) EXCEPT !.ok = FALSE], tail |-> <<>>]

\* a statement that is no query, and the texts given to execute_sql_to_ipc
SqlCreatesTable == "CREATE TABLE d_1 AS SELECT * FROM d"
IpcTexts == SqlTexts \cup {SqlCreatesTable}

\* the text prepared as it stands: [creates, q, tail], creates the table a
\* CREATE TABLE ... AS statement names
ParseStatement(text) ==
    IF text = SqlCreatesTable
    THEN [creates |-> Some(NameD1), q |-> SelectAll(NameD), tail |-> <<>>]
    ELSE [creates |-> None, q |-> ParseSql(text).q, tail |-> ParseSql(text).tail]

AggExprs == {<<"COUNT(*)">>, <<"COUNT(">>}

\* the aggregate list joined with ", " parses
ParseAggs(agg_exprs) == agg_exprs = <<"COUNT(*)">>

CalcExprs == {"k * 2", "k *"}

\* "(<expr>)" parses
ParseExpr(expr) == expr = "k * 2"

ColC == <<"c">>
ColMissing == <<"z", "z">>

(***************************************************************************)
(* DuckStorage (storage.rs), on the tables T of the open database.         *)
(***************************************************************************)
\* DuckStorage::list_tables: ORDER BY table_name
storage_list_tables(T) == SortedSeq(DOMAIN T)

\* DuckStorage::table_row_count: SELECT COUNT(*) FROM "name"
table_row_count(T, table_name) ==
    IF table_name \in DOMAIN T THEN Ok(Len(T[table_name].rows)) ELSE Err("DuckDb")

\* a table_info that reports the number of columns as the row count
table_info_counting_columns(T, table_name) ==
    LET rc == table_row_count(T, table_name)
    IN  IF ~rc.ok THEN rc
        ELSE Ok([name |-> table_name,
                 num_columns |-> Len(T[table_name].cols),
                 column_names |-> T[table_name].cols,
                 column_types |-> [i \in 1..Len(T[table_name].cols) |->
                                      ColumnType(T[table_name].cols[i])],
                 row_count |-> Len(T[table_name].cols)])

\* DuckStorage::table_info
table_info(T, table_name) ==
    LET rc == table_row_count(T, table_name)
    IN  IF ~rc.ok THEN rc
        ELSE Ok([name |-> table_name,
                 num_columns |-> Len(T[table_name].cols),
                 column_names |-> T[table_name].cols,
                 column_types |-> [i \in 1..Len(T[table_name].cols) |->
                                      ColumnType(T[table_name].cols[i])],
                 row_count |-> rc.val])

\* the per-type byte width of table_estimated_size_bytes
BytesPerValue(type) ==
    IF type \in {"BIGINT", "DOUBLE", "TIMESTAMP"} THEN 8
    ELSE IF type \in {"INTEGER", "FLOAT"} THEN 4
    ELSE IF type = "SMALLINT" THEN 2
    ELSE IF type \in {"BOOLEAN", "TINYINT"} THEN 1
    ELSE IF type \in {"VARCHAR", "TEXT", "BLOB"} THEN 64
    ELSE 32

RECURSIVE SumWidths(_)
SumWidths(types) ==
    IF types = <<>> THEN 0 ELSE BytesPerValue(Head(types)) + SumWidths(Tail(types))

\* DuckStorage::table_estimated_size_bytes
table_estimated_size_bytes(T, table_name) ==
    LET info == table_info(T, table_name)
    IN  IF ~info.ok THEN info
        ELSE IF info.val.row_count = 0 THEN Ok(0)
        ELSE Ok(info.val.row_count * SumWidths(info.val.column_types))

\* a get_table_chunk_ipc that writes LIMIT <offset> OFFSET <limit>
get_table_chunk_ipc_swapped(T, table_name, offset, limit) ==
    IF table_name \in DOMAIN T
    THEN Ok([cols |-> T[table_name].cols,
             rows |-> SliceRows(T[table_name].rows, limit, offset)])
    ELSE Err("DuckDb")

\* DuckStorage::get_table_chunk_ipc via query_to_ipc: the decoded stream
get_table_chunk_ipc(T, table_name, offset, limit) ==
    IF table_name \in DOMAIN T
    THEN Ok([cols |-> T[table_name].cols,
             rows |-> SliceRows(T[table_name].rows, offset, limit)])
    ELSE Err("DuckDb")

\* DuckStorage::get_table_preview_ipc
get_table_preview_ipc(T, table_name, limit) ==
    get_table_chunk_ipc(T, table_name, 0, limit)

\* DuckStorage::drop_table: DROP TABLE IF EXISTS
drop_table(T, table_name) ==
    LET Result(r) == [T |-> r.T, res |-> IF r.ok THEN Ok(TRUE) ELSE Err("DuckDb")]
    IN  Result(execute_batch(T, <<[k |-> "drop_if_exists", t |-> table_name]>>))

\* an execute_sql_to_table that runs the text and keeps no result table
execute_sql_to_table_discarding(T, sql, result_table) ==
    LET Result(safe_name, r) ==
            [T |-> T, res |-> IF r.ok THEN Ok(safe_name) ELSE Err("DuckDb")]
        Create(safe_name) ==
            Result(safe_name,
                   execute_batch(T, <<[k |-> "ctas", target |-> safe_name,
                                       q |-> sql.q]>> \o sql.tail))
    IN  Create(sanitize_table_name(result_table))

\* DuckStorage::execute_sql_to_table; sql is [q, tail]: the query that
\* follows AS and the statements the text goes on with
execute_sql_to_table(T, sql, result_table) ==
    LET Result(safe_name, r) ==
            [T |-> r.T, res |-> IF r.ok THEN Ok(safe_name) ELSE Err("DuckDb")]
        Create(safe_name) ==
            Result(safe_name,
                   execute_batch(T, <<[k |-> "ctas", target |-> safe_name,
                                       q |-> sql.q]>> \o sql.tail))
    IN  Create(sanitize_table_name(result_table))

\* DuckStorage::import_csv / import_parquet / import_arrow_ipc
import_reader(T, file_path, table_name) ==
    [T |-> Put(T, table_name, FileData(file_path)), res |-> Ok(TRUE)]

\* DuckStorage::import_file
storage_import_file(T, file_path, table_name) ==
    IF ~PathExists(file_path) THEN [T |-> T, res |-> Err("FileNotFound")]
    ELSE LET extension == ToLowercase(Extension(file_path))
             safe_name == sanitize_table_name(table_name)
         IN  IF extension \in SupportedExts
             THEN LET Read(r) ==
                          [T |-> r.T, res |-> IF r.res.ok THEN Ok(safe_name) ELSE r.res]
                  IN  Read(import_reader(T, file_path, safe_name))
             ELSE [T |-> T, res |-> Err("UnsupportedFormat")]

\* DuckStorage::export_to_csv / export_to_parquet: COPY "name" TO 'path';
\* the value is what is written
storage_export(T, table_name) ==
    IF table_name \in DOMAIN T THEN Ok(T[table_name]) ELSE Err("DuckDb")

(***************************************************************************)
(* The state: one RustoraSession and the databases it can open.            *)
(***************************************************************************)
VARIABLES
    storage,    \* RustoraSession.storage: NoStore, or the database it holds
    transient,  \* RustoraSession.transient: name -> lazy frame
    counter,    \* RustoraSession.counter
    issued,     \* history: the values next_counter has returned, in order
    db,         \* the tables of every database: MemDb and the project files
    ret         \* the call that has just returned: [op, args, res, pre], pre
                \* the session before it; Idle once the caller has taken it

\* the desktop application: commands on worker threads share the session
\* behind AppState.session, an Arc<Mutex<RustoraSession>>
VARIABLES
    session_mutex,  \* the threads that hold AppState.session
    counter_mutex,  \* the threads that hold RustoraSession.counter
    pc,             \* where each thread is in its command
    cmd,            \* the command each thread runs
    val,            \* the value next_counter returned to each thread
    generated,      \* history: the names generated, in order
    open_result     \* what make_open_result returned to each thread

sessionVars == <<storage, transient, counter, issued, db, ret>>
desktopVars == <<session_mutex, counter_mutex, pc, cmd, val, generated, open_result>>
vars == <<storage, transient, counter, issued, db, ret,
          session_mutex, counter_mutex, pc, cmd, val, generated, open_result>>

\* the session and its databases, as one value
Session == [storage |-> storage, transient |-> transient, counter |-> counter,
            issued |-> issued, db |-> db]

HasStore(S) == S.storage # NoStore
Tables(S) == S.db[S.storage]
TableNames(S) == IF HasStore(S) THEN DOMAIN Tables(S) ELSE {}
WithTables(S, T) == [S EXCEPT !.db = [@ EXCEPT ![S.storage] = T]]
Unchanged(S, res) == [s |-> S, res |-> res]

\* a lazy frame: the data it evaluates to, or fails when it is evaluated
LazyFrame(data) == [cols |-> data.cols, rows |-> data.rows, fails |-> FALSE]
Collect(lf) ==
    IF lf.fails THEN Err("Polars") ELSE Ok([cols |-> lf.cols, rows |-> lf.rows])

\* an open_project that starts the counter again at 0
open_project_resetting_counter(S, db_path, env) ==
    IF env # "ok" THEN Unchanged(S, Err("DuckDb"))
    ELSE LET closed == IF S.storage = MemDb
                       THEN [S EXCEPT !.db = [@ EXCEPT ![MemDb] = EmptyMap]]
                       ELSE S
             opened == [closed EXCEPT !.storage = db_path, !.transient = EmptyMap,
                                      !.counter = 0]
         IN  [s |-> opened, res |-> Ok(storage_list_tables(Tables(opened)))]

\* an open_project that keeps the transient map
open_project_keeping_transient(S, db_path, env) ==
    IF env # "ok" THEN Unchanged(S, Err("DuckDb"))
    ELSE LET closed == IF S.storage = MemDb
                       THEN [S EXCEPT !.db = [@ EXCEPT ![MemDb] = EmptyMap]]
                       ELSE S
             opened == [closed EXCEPT !.storage = db_path]
         IN  [s |-> opened, res |-> Ok(storage_list_tables(Tables(opened)))]

\* RustoraSession::open_project; env is what the database driver does:
\* "ok", "open_fails" (Connection::open errs), "list_fails" (list_tables errs)
open_project(S, db_path, env) ==
    IF env # "ok" THEN Unchanged(S, Err("DuckDb"))
    ELSE LET closed == IF S.storage = MemDb
                       THEN [S EXCEPT !.db = [@ EXCEPT ![MemDb] = EmptyMap]]
                       ELSE S
             opened == [closed EXCEPT !.storage = db_path, !.transient = EmptyMap]
         IN  [s |-> opened, res |-> Ok(storage_list_tables(Tables(opened)))]

\* a new_project that clears the transient map before it opens the store
new_project_clearing_first(S, db_path, env) ==
    IF env = "open_fails"
    THEN [s |-> [S EXCEPT !.transient = EmptyMap], res |-> Err("DuckDb")]
    ELSE LET closed == IF S.storage = MemDb
                       THEN [S EXCEPT !.db = [@ EXCEPT ![MemDb] = EmptyMap]]
                       ELSE S
         IN  [s |-> [closed EXCEPT !.storage = db_path, !.transient = EmptyMap],
              res |-> Ok(TRUE)]

\* RustoraSession::new_project; it lists no tables, so that only a failing
\* Connection::open makes it fail
new_project(S, db_path, env) ==
    IF env = "open_fails" THEN Unchanged(S, Err("DuckDb"))
    ELSE LET closed == IF S.storage = MemDb
                       THEN [S EXCEPT !.db = [@ EXCEPT ![MemDb] = EmptyMap]]
                       ELSE S
         IN  [s |-> [closed EXCEPT !.storage = db_path, !.transient = EmptyMap],
              res |-> Ok(TRUE)]

\* RustoraSession::project_path
project_path(S) == IF HasStore(S) THEN Some(S.storage) ELSE None

\* a next_counter that returns the next value without storing it
next_counter_not_stored(S) ==
    [s |-> [S EXCEPT !.issued = Append(@, S.counter + 1)], val |-> S.counter + 1]

\* RustoraSession::next_counter: *counter += 1; *counter
next_counter(S) ==
    LET s2 == [S EXCEPT !.counter = @ + 1]
    IN  [s |-> [s2 EXCEPT !.issued = Append(@, s2.counter)], val |-> s2.counter]

\* RustoraSession::generate_name
generate_name(S, file_path) ==
    LET stem == IF FileName(file_path) = <<>> THEN DefaultStem
                ELSE FileStem(file_path)
        c == next_counter(S)
    IN  [s |-> c.s, val |-> stem \o <<"_">> \o FormatU64(c.val)]

\* RustoraSession::import_file; table_name is an Option
import_file(S, file_path, table_name) ==
    IF ~HasStore(S) THEN Unchanged(S, Err("NoProjectOpen"))
    ELSE LET Imported(g, r) ==
                 IF r.res.ok THEN [s |-> WithTables(g.s, r.T), res |-> Ok(g.val)]
                 ELSE [s |-> WithTables(g.s, r.T), res |-> r.res]
             Import(g) ==
                 Imported(g, storage_import_file(Tables(g.s), file_path, g.val))
         IN  Import(IF table_name.some THEN [s |-> S, val |-> table_name.v]
                    ELSE generate_name(S, file_path))

\* RustoraSession::scan_file
scan_file(S, file_path) ==
    IF ~PathExists(file_path) THEN Unchanged(S, Err("FileNotFound"))
    ELSE LET extension == ToLowercase(Extension(file_path))
         IN  IF extension \notin SupportedExts
             THEN Unchanged(S, Err("UnsupportedFormat"))
             ELSE LET g == generate_name(S, file_path)
                  IN  [s |-> [g.s EXCEPT !.transient =
                                 Put(@, g.val, LazyFrame(FileData(file_path)))],
                       res |-> Ok(g.val)]

\* HashMap::keys: some order of the keys (here descending)
RECURSIVE Reverse(_)
Reverse(s) == IF s = <<>> THEN <<>> ELSE Append(Reverse(Tail(s)), Head(s))
HashMapKeys(m) == Reverse(SortedSeq(DOMAIN m))

\* RustoraSession::list_datasets
list_datasets(S) ==
    LET names == HashMapKeys(S.transient)
                    \o (IF HasStore(S) THEN storage_list_tables(Tables(S)) ELSE <<>>)
    IN  SortDedup(names)

\* RustoraSession::list_tables
list_tables(S) ==
    IF ~HasStore(S) THEN Err("NoProjectOpen") ELSE Ok(storage_list_tables(Tables(S)))

\* a resolution that looks in the transient map first
IsPersistentUnlessTransient(S, name) ==
    /\ name \notin DOMAIN S.transient
    /\ HasStore(S)
    /\ name \in Range(storage_list_tables(Tables(S)))

\* the test `storage.list_tables()?.contains(&name.to_string())` behind
\* `if let Some(storage) = &self.storage`
IsPersistent(S, name) ==
    HasStore(S) /\ name \in Range(storage_list_tables(Tables(S)))

\* RustoraSession::dataset_info
dataset_info(S, name) ==
    IF HasStore(S) /\ table_info(Tables(S), name).ok THEN
        LET info == table_info(Tables(S), name).val
            size == table_estimated_size_bytes(Tables(S), name)
        IN  Ok([name |-> info.name,
                num_columns |-> info.num_columns,
                estimated_rows |-> Some(info.row_count),
                column_names |-> info.column_names,
                column_dtypes |-> info.column_types,
                persistent |-> TRUE,
                estimated_size_bytes |-> IF size.ok THEN Some(size.val) ELSE None])
    ELSE IF name \in DOMAIN S.transient THEN
        LET lf == S.transient[name]
        IN  IF lf.fails THEN Err("Polars")
            ELSE Ok([name |-> name,
                     num_columns |-> Len(lf.cols),
                     estimated_rows |-> None,
                     column_names |-> lf.cols,
                     column_dtypes |-> [i \in 1..Len(lf.cols) |->
                                          IF ColumnType(lf.cols[i]) = "VARCHAR"
                                          THEN "str" ELSE "i64"],
                     persistent |-> FALSE,
                     estimated_size_bytes |-> None])
    ELSE Err("TableNotFound")

\* RustoraSession::get_chunk_ipc
get_chunk_ipc(S, name, offset, limit) ==
    IF IsPersistent(S, name) THEN get_table_chunk_ipc(Tables(S), name, offset, limit)
    ELSE IF name \in DOMAIN S.transient THEN
        LET df == Collect(S.transient[name])
        IN  IF df.ok THEN Ok([cols |-> df.val.cols,
                              rows |-> SliceRows(df.val.rows, offset, limit)])
            ELSE df
    ELSE Err("TableNotFound")

\* RustoraSession::get_preview_ipc
get_preview_ipc(S, name, limit) ==
    IF IsPersistent(S, name) THEN get_table_preview_ipc(Tables(S), name, limit)
    ELSE IF name \in DOMAIN S.transient THEN
        LET df == Collect(S.transient[name])
        IN  IF df.ok THEN Ok([cols |-> df.val.cols,
                              rows |-> SliceRows(df.val.rows, 0, limit)])
            ELSE df
    ELSE Err("TableNotFound")

\* RustoraSession::get_row_count
get_row_count(S, name) ==
    IF HasStore(S) /\ table_row_count(Tables(S), name).ok
    THEN table_row_count(Tables(S), name)
    ELSE IF name \in DOMAIN S.transient THEN
        LET df == Collect(S.transient[name])
        IN  IF df.ok THEN Ok(Len(df.val.rows)) ELSE df
    ELSE Err("TableNotFound")

\* the outcome of a materializing call: the tables as the batch left them,
\* and the name the session returns when the batch succeeded
Materialized(S, r, result_name) ==
    [s |-> WithTables(S, r.T), res |-> IF r.res.ok THEN Ok(result_name) ELSE r.res]

\* an execute_sql that accepts only a store opened from a project file
execute_sql_requiring_project(S, sql) ==
    IF S.storage \notin ProjectPaths THEN Unchanged(S, Err("NoProjectOpen"))
    ELSE LET c == next_counter(S)
             result_name == SqlResultPrefix \o <<"_">> \o FormatU64(c.val)
         IN  Materialized(c.s,
                          execute_sql_to_table(Tables(c.s), ParseSql(sql), result_name),
                          result_name)

\* RustoraSession::execute_sql
execute_sql(S, sql) ==
    IF ~HasStore(S) THEN Unchanged(S, Err("NoProjectOpen"))
    ELSE LET c == next_counter(S)
             result_name == SqlResultPrefix \o <<"_">> \o FormatU64(c.val)
         IN  Materialized(c.s,
                          execute_sql_to_table(Tables(c.s), ParseSql(sql), result_name),
                          result_name)

\* RustoraSession::sort_dataset
sort_dataset(S, name, columns, descending) ==
    IF IsPersistent(S, name) THEN
        LET order_clauses == Zip(columns, descending)
            sql == [q |-> [SelectAll(name) EXCEPT !.order = order_clauses,
                                                  !.ok = order_clauses # <<>>],
                    tail |-> <<>>]
            result_name == name \o SortedSuffix
        IN  Materialized(S, execute_sql_to_table(Tables(S), sql, result_name),
                         result_name)
    ELSE IF name \in DOMAIN S.transient THEN
        LET lf == S.transient[name]
            valid == /\ ~lf.fails
                     /\ ColumnsExist(lf.cols, columns)
                     /\ Len(descending) \in {1, Len(columns)}
            keys == [i \in 1..Len(columns) |->
                        [idx |-> IndexOf(lf.cols, columns[i]),
                         desc |-> IF Len(descending) = 1 THEN descending[1]
                                  ELSE descending[i]]]
            sorted == IF valid
                      THEN [lf EXCEPT !.rows = SortRows(lf.rows, keys)]
                      ELSE [lf EXCEPT !.fails = TRUE]
            new_name == name \o SortedSuffix
        IN  [s |-> [S EXCEPT !.transient = Put(@, new_name, sorted)],
             res |-> Ok(new_name)]
    ELSE Unchanged(S, Err("TableNotFound"))

\* RustoraSession::filter_dataset; predicate is the Polars expression k > 1
filter_dataset(S, name, predicate) ==
    IF name \notin DOMAIN S.transient THEN Unchanged(S, Err("TableNotFound"))
    ELSE LET lf == S.transient[name]
             kidx == IndexOf(lf.cols, ColK)
             filtered == IF lf.fails \/ kidx = 0 THEN [lf EXCEPT !.fails = TRUE]
                         ELSE [lf EXCEPT !.rows =
                                  SelectSeq(lf.rows, LAMBDA r : r[kidx] > 1)]
             new_name == name \o FilteredSuffix
         IN  [s |-> [S EXCEPT !.transient = Put(@, new_name, filtered)],
              res |-> Ok(new_name)]

\* RustoraSession::filter_dataset_sql
filter_dataset_sql(S, name, where_clause) ==
    IF IsPersistent(S, name) THEN
        LET Sql(w) == [q |-> [SelectAll(name) EXCEPT !.pred = w.pred, !.ok = w.ok],
                       tail |-> w.tail]
            c == next_counter(S)
            result_name == name \o FilteredSuffix \o <<"_">> \o FormatU64(c.val)
        IN  Materialized(c.s,
                         execute_sql_to_table(Tables(c.s), Sql(ParseWhere(where_clause)),
                                              result_name),
                         result_name)
    ELSE Unchanged(S, Err("Session"))

(***************************************************************************)
(* The filter compiler (filter.rs).  Column names, values and the SQL text *)
(* are sequences of characters.                                            *)
(***************************************************************************)
\* str::len: the length in bytes of the UTF-8 encoding
Utf8Len(s) == Len(s) + Cardinality({i \in 1..Len(s) : s[i] = EAcute})

\* str::replace(c, to): every occurrence of character c becomes to
RECURSIVE Replace(_, _, _)
Replace(s, c, to) ==
    IF s = <<>> THEN <<>>
    ELSE (IF Head(s) = c THEN to ELSE <<Head(s)>>) \o Replace(Tail(s), c, to)

\* a sanitize_column_name that measures the name in characters
sanitize_column_name_by_chars(name) ==
    IF name = <<>> \/ Len(name) > MaxColumnBytes THEN Err("ColumnNotFound")
    ELSE IF \A i \in 1..Len(name) :
                IsAlphanumeric(name[i]) \/ name[i] \in {"_", " ", "."}
    THEN Ok(<<"\"">> \o name \o <<"\"">>)
    ELSE Err("Session")

\* sanitize_column_name
sanitize_column_name(name) ==
    IF name = <<>> \/ Utf8Len(name) > MaxColumnBytes THEN Err("ColumnNotFound")
    ELSE IF \A i \in 1..Len(name) :
                IsAlphanumeric(name[i]) \/ name[i] \in {"_", " ", "."}
    THEN Ok(<<"\"">> \o name \o <<"\"">>)
    ELSE Err("Session")

\* an escape_sql_string that leaves the value as it is
escape_sql_string_verbatim(value) == value

\* escape_sql_string
escape_sql_string(value) == Replace(value, "'", <<"'", "'">>)

\* str::parse::<f64>: an optional sign, then inf, infinity or nan in any
\* case, or decimal digits with at most one point and at least one digit,
\* optionally followed by e, an optional sign and at least one digit
ParsesAsF64(s) ==
    LET low == ToLowercase(s)
        unsigned(x) == IF x # <<>> /\ x[1] \in {"+", "-"} THEN Tail(x) ELSE x
        digits(x) == \A i \in 1..Len(x) : x[i] \in Digits
        body == unsigned(low)
        e == IndexOf(body, "e")
        mantissa == IF e = 0 THEN body ELSE SubSeq(body, 1, e - 1)
        exponent == unsigned(SubSeq(body, e + 1, Len(body)))
        point == IndexOf(mantissa, ".")
        whole == IF point = 0 THEN mantissa ELSE RemoveAt(mantissa, point)
    IN  \/ body \in {<<"i", "n", "f">>, <<"n", "a", "n">>,
                     <<"i", "n", "f", "i", "n", "i", "t", "y">>}
        \/ /\ whole # <<>> /\ digits(whole)
           /\ e # 0 => (exponent # <<>> /\ digits(exponent))

\* an is_numeric that looks at the first character only
starts_with_digit(s) == s # <<>> /\ s[1] \in Digits

\* is_numeric
is_numeric(s) == ParsesAsF64(s)

\* format_comparison_value
format_comparison_value(s) ==
    IF ParsesAsF64(s) THEN s ELSE <<"'">> \o escape_sql_string(s) \o <<"'">>

\* escape_like
escape_like(s) ==
    Replace(Replace(escape_sql_string(s), "%", <<"\\", "%">>), "_", <<"\\", "_">>)

ComparisonOperators ==
    {"Equals", "NotEquals", "GreaterThan", "GreaterThanOrEqual", "LessThan",
     "LessThanOrEqual"}
FilterOperators ==
    ComparisonOperators \cup
        {"Contains", "NotContains", "StartsWith", "EndsWith", "IsNull", "IsNotNull"}

\* the symbol condition_to_sql writes for a comparison operator
OperatorText(operator) ==
    CASE operator = "Equals" -> <<"=">>
      [] operator = "NotEquals" -> <<"!", "=">>
      [] operator = "GreaterThan" -> <<">">>
      [] operator = "GreaterThanOrEqual" -> <<">", "=">>
      [] operator = "LessThan" -> <<"<">>
      [] operator = "LessThanOrEqual" -> <<"<", "=">>

\* condition_to_sql
condition_to_sql(cond) ==
    LET col == sanitize_column_name(cond.column)
        escaped_val == escape_sql_string(cond.value)
        like == <<" ", "L", "I", "K", "E", " ", "'">>
        not_like == <<" ", "N", "O", "T">> \o like
    IN  IF ~col.ok THEN col
        ELSE Ok(col.val \o
             CASE cond.operator \in {"Equals", "NotEquals"} ->
                    <<" ">> \o OperatorText(cond.operator) \o <<" ">> \o
                        (IF is_numeric(cond.value) THEN cond.value
                         ELSE <<"'">> \o escaped_val \o <<"'">>)
               [] cond.operator \in ComparisonOperators \ {"Equals", "NotEquals"} ->
                    <<" ">> \o OperatorText(cond.operator) \o <<" ">> \o
                        format_comparison_value(cond.value)
               [] cond.operator = "Contains" ->
                    like \o <<"%">> \o escape_like(cond.value) \o <<"%", "'">>
               [] cond.operator = "NotContains" ->
                    not_like \o <<"%">> \o escape_like(cond.value) \o <<"%", "'">>
               [] cond.operator = "StartsWith" ->
                    like \o escape_like(cond.value) \o <<"%", "'">>
               [] cond.operator = "EndsWith" ->
                    like \o <<"%">> \o escape_like(cond.value) \o <<"'">>
               [] cond.operator = "IsNull" ->
                    <<" ", "I", "S", " ", "N", "U", "L", "L">>
               [] cond.operator = "IsNotNull" ->
                    <<" ", "I", "S", " ", "N", "O", "T", " ", "N", "U", "L", "L">>)

\* [String]::join
RECURSIVE Join(_, _)
Join(parts, sep) ==
    IF Len(parts) = 1 THEN parts[1]
    ELSE parts[1] \o sep \o Join(Tail(parts), sep)

\* FilterSpec::to_sql_where: collect::<Result<Vec<_>>>() stops at the first
\* condition that fails
to_sql_where(spec) ==
    IF spec.conditions = <<>> THEN Err("Session")
    ELSE LET joiner == IF spec.logic = "And" THEN <<" ", "A", "N", "D", " ">>
                       ELSE <<" ", "O", "R", " ">>
             FirstErrOrJoin(clauses) ==
                 IF \E i \in 1..Len(clauses) : ~clauses[i].ok
                 THEN clauses[CHOOSE i \in 1..Len(clauses) :
                                 /\ ~clauses[i].ok
                                 /\ \A j \in 1..i - 1 : clauses[j].ok]
                 ELSE Ok(Join([i \in 1..Len(clauses) |-> clauses[i].val], joiner))
         IN  FirstErrOrJoin([i \in 1..Len(spec.conditions) |->
                         condition_to_sql(spec.conditions[i])])

\* the filters the session is called with: none, k > 1, and s equal to the
\* text  '; DROP TABLE d; --
FilterSpecs ==
    {[conditions |-> <<>>, logic |-> "And"],
     [conditions |-> <<[column |-> ColK, operator |-> "GreaterThan",
                        value |-> <<"1">>]>>, logic |-> "And"],
     [conditions |-> <<[column |-> ColS, operator |-> "Equals",
                        value |-> InjValue]>>, logic |-> "And"]}

\* RustoraSession::filter_dataset_structured
filter_dataset_structured(S, name, spec) ==
    LET Filter(where_clause) ==
            IF ~where_clause.ok THEN Unchanged(S, where_clause)
            ELSE filter_dataset_sql(S, name, where_clause.val)
    IN  Filter(to_sql_where(spec))

\* RustoraSession::group_by
group_by(S, name, group_columns, agg_exprs) ==
    IF IsPersistent(S, name) THEN
        LET sql == [q |-> [SelectAll(name) EXCEPT !.group = group_columns,
                                                  !.aggs = TRUE,
                                                  !.ok = ParseAggs(agg_exprs)
                                                            /\ group_columns # <<>>],
                    tail |-> <<>>]
            c == next_counter(S)
            result_name == name \o GroupedSuffix \o <<"_">> \o FormatU64(c.val)
        IN  Materialized(c.s, execute_sql_to_table(Tables(c.s), sql, result_name),
                         result_name)
    ELSE Unchanged(S, Err("TableNotFound"))

\* RustoraSession::add_calculated_column
add_calculated_column(S, name, expr, alias) ==
    IF IsPersistent(S, name) THEN
        LET sql == [q |-> [SelectAll(name) EXCEPT !.calc = Some(alias),
                                                  !.ok = ParseExpr(expr)],
                    tail |-> <<>>]
            c == next_counter(S)
            result_name == name \o CalcSuffix \o <<"_">> \o FormatU64(c.val)
        IN  Materialized(c.s, execute_sql_to_table(Tables(c.s), sql, result_name),
                         result_name)
    ELSE Unchanged(S, Err("TableNotFound"))

\* RustoraSession::summary_stats_ipc: SUMMARIZE, one row per column
summary_stats_ipc(S, name) ==
    IF IsPersistent(S, name) THEN
        LET t == Tables(S)[name]
        IN  Ok([cols |-> <<<<"c", "o", "u", "n", "t">>>>,
                rows |-> [i \in 1..Len(t.cols) |-> <<Len(t.rows)>>]])
    ELSE Err("Session")

\* a query_to_ipc that prepares and runs queries only
query_to_ipc_select_only(T, sql) ==
    IF sql.tail # <<>> \/ ~sql.q.ok \/ sql.creates.some
    THEN [T |-> T, res |-> Err("DuckDb")]
    ELSE LET Stream(r) ==
                 [T |-> T, res |-> IF r.ok THEN Ok(r.data) ELSE Err("DuckDb")]
         IN  Stream(EvalSelect(T, sql.q))

\* DuckStorage::query_to_ipc: the text is prepared as one statement, run,
\* and its result streamed; [T, res], res the decoded stream (for a CREATE
\* TABLE ... AS statement the one-row count)
query_to_ipc(T, sql) ==
    IF sql.tail # <<>> \/ ~sql.q.ok THEN [T |-> T, res |-> Err("DuckDb")]
    ELSE LET Stream(r) ==
                 IF ~r.ok \/ (sql.creates.some /\ sql.creates.v \in DOMAIN T)
                 THEN [T |-> T, res |-> Err("DuckDb")]
                 ELSE IF sql.creates.some
                 THEN [T |-> Put(T, sql.creates.v, r.data),
                       res |-> Ok([cols |-> <<(<<"C", "o", "u", "n", "t">>)>>,
                                   rows |-> <<(<<Len(r.data.rows)>>)>>])]
                 ELSE [T |-> T, res |-> Ok(r.data)]
         IN  Stream(EvalSelect(T, sql.q))

\* RustoraSession::execute_sql_to_ipc
execute_sql_to_ipc(S, sql) ==
    IF ~HasStore(S) THEN Unchanged(S, Err("NoProjectOpen"))
    ELSE LET Ran(r) == [s |-> WithTables(S, r.T), res |-> r.res]
         IN  Ran(query_to_ipc(Tables(S), ParseStatement(sql)))

\* the sum of column idx over rows
RECURSIVE SumColumn(_, _)
SumColumn(rows, idx) ==
    IF rows = <<>> THEN 0 ELSE Head(rows)[idx] + SumColumn(Tail(rows), idx)

LabelCol == <<"l", "a", "b", "e", "l">>
ValueCol == <<"v", "a", "l", "u", "e">>
AggTypes == {"count", "sum"}

\* an aggregate_for_chart that counts when it is given no value column
aggregate_for_chart_counting(S, name, group_col, value_col, agg_type, limit) ==
    IF ~HasStore(S) THEN Err("NoProjectOpen")
    ELSE IF name \notin Range(storage_list_tables(Tables(S)))
    THEN Err("TableNotFound")
    ELSE LET t == Tables(S)[name]
             gidx == IndexOf(t.cols, group_col)
             vidx == IF value_col.some THEN IndexOf(t.cols, value_col.v) ELSE 0
             labels == AscendingInts({t.rows[i][gidx] : i \in 1..Len(t.rows)})
             group(l) == SelectSeq(t.rows, LAMBDA r : r[gidx] = l)
             groups == [i \in 1..Len(labels) |->
                          <<labels[i],
                            IF agg_type = "count" \/ ~value_col.some
                            THEN Len(group(labels[i]))
                            ELSE SumColumn(group(labels[i]), vidx)>>]
         IN  IF gidx = 0 \/ (agg_type # "count" /\ value_col.some /\ vidx = 0)
             THEN Err("DuckDb")
             ELSE Ok([cols |-> <<LabelCol, ValueCol>>,
                      rows |-> SliceRows(SortRows(groups,
                                                  <<[idx |-> 2, desc |-> TRUE]>>),
                                         0, limit)])

\* RustoraSession::aggregate_for_chart: GROUP BY group_col ORDER BY value
\* DESC LIMIT limit (groups of equal value in ascending label order)
aggregate_for_chart(S, name, group_col, value_col, agg_type, limit) ==
    IF ~HasStore(S) THEN Err("NoProjectOpen")
    ELSE IF name \notin Range(storage_list_tables(Tables(S)))
    THEN Err("TableNotFound")
    ELSE IF agg_type # "count" /\ ~value_col.some THEN Err("Session")
    ELSE LET t == Tables(S)[name]
             gidx == IndexOf(t.cols, group_col)
             vidx == IF value_col.some THEN IndexOf(t.cols, value_col.v) ELSE 0
             labels == AscendingInts({t.rows[i][gidx] : i \in 1..Len(t.rows)})
             group(l) == SelectSeq(t.rows, LAMBDA r : r[gidx] = l)
             groups == [i \in 1..Len(labels) |->
                          <<labels[i],
                            IF agg_type = "count" THEN Len(group(labels[i]))
                            ELSE SumColumn(group(labels[i]), vidx)>>]
         IN  IF gidx = 0 \/ (agg_type # "count" /\ vidx = 0) THEN Err("DuckDb")
             ELSE Ok([cols |-> <<LabelCol, ValueCol>>,
                      rows |-> SliceRows(SortRows(groups,
                                                  <<[idx |-> 2, desc |-> TRUE]>>),
                                         0, limit)])

\* RustoraSession::export_to_parquet; the value is the data written
export_to_parquet(S, name) ==
    IF IsPersistent(S, name) THEN storage_export(Tables(S), name)
    ELSE IF name \in DOMAIN S.transient THEN Collect(S.transient[name])
    ELSE Err("TableNotFound")

\* RustoraSession::export_to_csv; the value is the data written
export_to_csv(S, name) ==
    IF IsPersistent(S, name) THEN storage_export(Tables(S), name)
    ELSE IF name \in DOMAIN S.transient THEN Collect(S.transient[name])
    ELSE Err("TableNotFound")

\* a remove_dataset that fails on a name that is no dataset
remove_dataset_strict(S, name) ==
    IF IsPersistent(S, name) THEN
        LET Dropped(r) == [s |-> WithTables(S, r.T), res |-> r.res]
        IN  Dropped(drop_table(Tables(S), name))
    ELSE IF name \in DOMAIN S.transient
    THEN [s |-> [S EXCEPT !.transient = Del(@, name)], res |-> Ok(TRUE)]
    ELSE Unchanged(S, Err("TableNotFound"))

\* RustoraSession::remove_dataset
remove_dataset(S, name) ==
    IF IsPersistent(S, name) THEN
        LET Dropped(r) == [s |-> WithTables(S, r.T), res |-> r.res]
        IN  Dropped(drop_table(Tables(S), name))
    ELSE [s |-> [S EXCEPT !.transient = Del(@, name)],
          res |-> Ok(name \in DOMAIN S.transient)]

\* RustoraSession::register_lazy_frame
register_lazy_frame(S, name, lf) ==
    [s |-> [S EXCEPT !.transient = Put(@, name, lf)], res |-> Ok(TRUE)]

(***************************************************************************)
(* Inputs of the calls.                                                    *)
(***************************************************************************)
ExplicitNames == {NameD}
TableNameArgs == {None} \cup {Some(n) : n \in ExplicitNames}
OpenEnvs == {"ok", "open_fails", "list_fails"}
SortArgs == {[columns |-> <<ColK>>, descending |-> <<FALSE>>],
             [columns |-> <<ColK>>, descending |-> <<TRUE>>],
             [columns |-> <<ColK>>, descending |-> <<>>],
             [columns |-> <<ColK>>, descending |-> <<TRUE, FALSE>>]}
Limits == {1}
Offsets == {0, 1}
\* chunk k of size l starts at offset k * l
ChunkLimits == {1, 2}
ChunkIndexes == {0, 1, 2}
RegisteredFrame == LazyFrame([cols |-> <<ColK>>, rows |-> <<(<<9>>)>>])

\* the names a caller passes: the datasets there are, and one that never
\* is a dataset
NameArgs == TableNames(Session) \cup DOMAIN transient \cup {NameMissing}

(***************************************************************************)
(* The actions: one per public method of RustoraSession.                   *)
(***************************************************************************)
Idle == [op |-> "idle"]

\* the call op(args) took the session to out.s and returned out.res
Call(op, args, out) ==
    /\ ret = Idle
    /\ out.s.counter <= MaxCounter
    /\ Cardinality(TableNames(out.s)) + Cardinality(DOMAIN out.s.transient)
            <= MaxDatasets
    /\ Cardinality(TableNames(out.s)) < MaxDatasets
    /\ Cardinality(DOMAIN out.s.transient) < MaxDatasets
    /\ \A n \in TableNames(out.s) \cup DOMAIN out.s.transient : Len(n) <= MaxNameLen
    /\ storage' = out.s.storage
    /\ transient' = out.s.transient
    /\ counter' = out.s.counter
    /\ issued' = out.s.issued
    /\ db' = out.s.db
    /\ ret' = [op |-> op, args |-> args, res |-> out.res, pre |-> Session]
    /\ UNCHANGED desktopVars

\* a &self method: it returns res and leaves the session as it is
Read(op, args, res) == Call(op, args, [s |-> Session, res |-> res])

OpenProject ==
    \E p \in ProjectPaths, env \in OpenEnvs :
        Call("open_project", [db_path |-> p, env |-> env],
             open_project(Session, p, env))

NewProject ==
    \E p \in ProjectPaths, env \in OpenEnvs \ {"list_fails"} :
        Call("new_project", [db_path |-> p, env |-> env],
             new_project(Session, p, env))

ImportFile ==
    \E f \in FilePaths, t \in TableNameArgs :
        Call("import_file", [file_path |-> f, table_name |-> t],
             import_file(Session, f, t))

ScanFile ==
    \E f \in FilePaths :
        Call("scan_file", [file_path |-> f], scan_file(Session, f))

ListDatasets == Read("list_datasets", [none |-> TRUE], Ok(list_datasets(Session)))

DatasetInfo ==
    \E n \in NameArgs : Read("dataset_info", [name |-> n], dataset_info(Session, n))

GetPreviewIpc ==
    \E n \in NameArgs, l \in Limits :
        Read("get_preview_ipc", [name |-> n, limit |-> l],
             get_preview_ipc(Session, n, l))

GetChunkIpc ==
    \E n \in NameArgs, l \in ChunkLimits, k \in ChunkIndexes :
        Read("get_chunk_ipc", [name |-> n, offset |-> k * l, limit |-> l],
             get_chunk_ipc(Session, n, k * l, l))

GetRowCount ==
    \E n \in NameArgs : Read("get_row_count", [name |-> n], get_row_count(Session, n))

ExecuteSql ==
    \E q \in SqlTexts : Call("execute_sql", [sql |-> q], execute_sql(Session, q))

SortDataset ==
    \E n \in NameArgs, a \in SortArgs :
        Call("sort_dataset",
             [name |-> n, columns |-> a.columns, descending |-> a.descending],
             sort_dataset(Session, n, a.columns, a.descending))

FilterDataset ==
    \E n \in NameArgs :
        Call("filter_dataset", [name |-> n], filter_dataset(Session, n, "gt1"))

FilterDatasetSql ==
    \E n \in NameArgs, w \in WhereClauses :
        Call("filter_dataset_sql", [name |-> n, where_clause |-> w],
             filter_dataset_sql(Session, n, w))

FilterDatasetStructured ==
    \E n \in NameArgs, f \in FilterSpecs :
        Call("filter_dataset_structured", [name |-> n, spec |-> f],
             filter_dataset_structured(Session, n, f))

GroupBy ==
    \E n \in NameArgs, a \in AggExprs :
        Call("group_by", [name |-> n, group_columns |-> <<ColK>>, agg_exprs |-> a],
             group_by(Session, n, <<ColK>>, a))

AddCalculatedColumn ==
    \E n \in NameArgs, e \in CalcExprs :
        Call("add_calculated_column", [name |-> n, expr |-> e, alias |-> ColC],
             add_calculated_column(Session, n, e, ColC))

SummaryStatsIpc ==
    \E n \in NameArgs :
        Read("summary_stats_ipc", [name |-> n], summary_stats_ipc(Session, n))

ExecuteSqlToIpc ==
    \E q \in IpcTexts :
        Call("execute_sql_to_ipc", [sql |-> q], execute_sql_to_ipc(Session, q))

AggregateForChart ==
    \E n \in NameArgs, v \in {None, Some(ColK)}, a \in AggTypes, l \in Limits :
        Read("aggregate_for_chart",
             [name |-> n, group_col |-> ColK, value_col |-> v, agg_type |-> a,
              limit |-> l],
             aggregate_for_chart(Session, n, ColK, v, a, l))

ExportToParquet ==
    \E n \in NameArgs :
        Read("export_to_parquet", [name |-> n], export_to_parquet(Session, n))

ExportToCsv ==
    \E n \in NameArgs : Read("export_to_csv", [name |-> n], export_to_csv(Session, n))

RemoveDataset ==
    \E n \in NameArgs :
        Call("remove_dataset", [name |-> n], remove_dataset(Session, n))

RegisterLazyFrame ==
    Call("register_lazy_frame", [name |-> NameD],
         register_lazy_frame(Session, NameD, RegisteredFrame))

Threads == {"t1", "t2"}
NoCommand == [op |-> "none"]

\* no desktop command is running
DesktopIdle ==
    /\ session_mutex = {}
    /\ counter_mutex = {}
    /\ pc = [t \in Threads |-> "idle"]
    /\ cmd = [t \in Threads |-> NoCommand]
    /\ val = [t \in Threads |-> 0]
    /\ generated = <<>>
    /\ open_result = [t \in Threads |-> None]

\* RustoraSession::new: open_in_memory().ok() is Some, or None when the
\* driver fails; no transient entry; counter 0
Init ==
    /\ DesktopIdle
    /\ storage \in {MemDb, NoStore}
    /\ transient = EmptyMap
    /\ counter = 0
    /\ issued = <<>>
    /\ db = [d \in {MemDb, P1} |-> IF d = P1 THEN EarlierTables ELSE EmptyMap]
    /\ ret = Idle

\* the caller takes the result; the session is ready for the next call
Return ==
    /\ ret # Idle
    /\ ret' = Idle
    /\ UNCHANGED <<storage, transient, counter, issued, db>>
    /\ UNCHANGED desktopVars

Next ==
    \/ Return
    \/ OpenProject
    \/ NewProject
    \/ ImportFile
    \/ ScanFile
    \/ ListDatasets
    \/ DatasetInfo
    \/ GetPreviewIpc
    \/ GetChunkIpc
    \/ GetRowCount
    \/ ExecuteSql
    \/ SortDataset
    \/ FilterDataset
    \/ FilterDatasetSql
    \/ FilterDatasetStructured
    \/ GroupBy
    \/ AddCalculatedColumn
    \/ SummaryStatsIpc
    \/ ExecuteSqlToIpc
    \/ AggregateForChart
    \/ ExportToParquet
    \/ ExportToCsv
    \/ RemoveDataset
    \/ RegisterLazyFrame

Spec == Init /\ [][Next]_vars

(***************************************************************************)
(* The desktop application.  Every command runs on a worker thread, locks  *)
(* AppState.session, calls the session and unlocks when it returns; a      *)
(* name-generating session method calls next_counter, which locks the      *)
(* counter, adds one, reads it and unlocks.                                *)
(***************************************************************************)
\* a lock that excludes nobody
MutexNeverHeld(holders) == TRUE

\* std::sync::Mutex::lock returns once no thread holds the mutex
MutexFree(holders) == holders = {}

\* the commands whose session method generates a name
GenCommands ==
    {[op |-> o, arg |-> f] : o \in {"import_file", "scan_file"}, f \in {PathD, PathAB}}
        \cup {[op |-> "open_file", arg |-> PathD]}
        \cup {[op |-> "execute_sql", arg |-> <<>>]}
        \cup {[op |-> o, arg |-> NameD1] :
                o \in {"filter_dataset_sql", "group_by", "add_calculated_column"}}

\* the format! of each name-generating method, k the value of next_counter
ResultName(c, k) ==
    CASE c.op \in {"import_file", "scan_file", "open_file"} ->
            (IF FileName(c.arg) = <<>> THEN DefaultStem ELSE FileStem(c.arg))
                \o <<"_">> \o FormatU64(k)
      [] c.op = "execute_sql" -> SqlResultPrefix \o <<"_">> \o FormatU64(k)
      [] c.op = "filter_dataset_sql" ->
            c.arg \o FilteredSuffix \o <<"_">> \o FormatU64(k)
      [] c.op = "group_by" -> c.arg \o GroupedSuffix \o <<"_">> \o FormatU64(k)
      [] c.op = "add_calculated_column" ->
            c.arg \o CalcSuffix \o <<"_">> \o FormatU64(k)

\* the session method the open_file command calls:
\* if session.project_path().is_some() { import_file } else { scan_file }
open_file_method(S) ==
    IF project_path(S).some THEN "import_file" ELSE "scan_file"

\* the checks a name-generating method makes before it calls next_counter
Admits(S, c) ==
    CASE c.op \in {"import_file", "execute_sql"} -> HasStore(S)
      [] c.op = "scan_file" ->
            PathExists(c.arg) /\ ToLowercase(Extension(c.arg)) \in SupportedExts
      [] c.op = "open_file" ->
            IF open_file_method(S) = "import_file" THEN HasStore(S)
            ELSE PathExists(c.arg) /\ ToLowercase(Extension(c.arg)) \in SupportedExts
      [] OTHER -> IsPersistent(S, c.arg)

\* what the method does with its name once next_counter has returned
Work(S, c, name) ==
    CASE c.op = "import_file" ->
            LET r == storage_import_file(Tables(S), c.arg, name)
            IN  Materialized(S, [T |-> r.T, res |-> r.res], name)
      [] c.op = "scan_file" ->
            [s |-> [S EXCEPT !.transient = Put(@, name, LazyFrame(FileData(c.arg)))],
             res |-> Ok(name)]
      [] c.op = "open_file" ->
            IF open_file_method(S) = "import_file"
            THEN LET r == storage_import_file(Tables(S), c.arg, name)
                 IN  Materialized(S, [T |-> r.T, res |-> r.res], name)
            ELSE [s |-> [S EXCEPT !.transient = Put(@, name, LazyFrame(FileData(c.arg)))],
                  res |-> Ok(name)]
      [] c.op = "execute_sql" ->
            Materialized(S, execute_sql_to_table(Tables(S),
                                ParseSql("SELECT * FROM d"), name), name)
      [] c.op = "filter_dataset_sql" ->
            Materialized(S, execute_sql_to_table(Tables(S),
                                [q |-> [SelectAll(c.arg) EXCEPT !.pred = PredGt1],
                                 tail |-> <<>>], name), name)
      [] c.op = "group_by" ->
            Materialized(S, execute_sql_to_table(Tables(S),
                                [q |-> [SelectAll(c.arg) EXCEPT !.group = <<ColK>>,
                                                                !.aggs = TRUE],
                                 tail |-> <<>>], name), name)
      [] c.op = "add_calculated_column" ->
            Materialized(S, execute_sql_to_table(Tables(S),
                                [q |-> [SelectAll(c.arg) EXCEPT !.calc = Some(ColC)],
                                 tail |-> <<>>], name), name)

\* make_open_result: dataset_info, and get_row_count when the info has no
\* row estimate
make_open_result(S, name) ==
    LET info == dataset_info(S, name)
        count == get_row_count(S, name)
    IN  IF ~info.ok THEN info
        ELSE Ok([dataset_name |-> name,
                 columns |-> [i \in 1..Len(info.val.column_names) |->
                                 [name |-> info.val.column_names[i],
                                  dtype |-> info.val.column_dtypes[i]]],
                 total_rows |-> IF info.val.estimated_rows.some
                                THEN info.val.estimated_rows.v
                                ELSE IF count.ok THEN count.val ELSE 0,
                 persistent |-> info.val.persistent,
                 size_bytes |-> info.val.estimated_size_bytes])

Running == {t \in Threads : pc[t] # "idle"}

\* the frontend invokes a command; spawn_blocking gives it a thread
Invoke(t) ==
    /\ pc[t] = "idle"
    /\ Len(generated) + Cardinality(Running) < MaxCounter
    /\ \E c \in GenCommands : cmd' = [cmd EXCEPT ![t] = c]
    /\ pc' = [pc EXCEPT ![t] = "invoked"]
    /\ UNCHANGED <<session_mutex, counter_mutex, val, generated, open_result>>
    /\ UNCHANGED sessionVars

\* session.lock()
LockSession(t) ==
    /\ pc[t] = "invoked"
    /\ MutexFree(session_mutex)
    /\ session_mutex' = session_mutex \cup {t}
    /\ pc' = [pc EXCEPT ![t] = "in_session"]
    /\ UNCHANGED <<counter_mutex, cmd, val, generated, open_result>>
    /\ UNCHANGED sessionVars

\* the session method returns an error before it generates a name, and ?
\* leaves the closure
Reject(t) ==
    /\ pc[t] = "in_session"
    /\ ~Admits(Session, cmd[t])
    /\ pc' = [pc EXCEPT ![t] = "failed"]
    /\ UNCHANGED <<session_mutex, counter_mutex, cmd, val, generated, open_result>>
    /\ UNCHANGED sessionVars

\* next_counter: self.counter.lock()
LockCounter(t) ==
    /\ pc[t] = "in_session"
    /\ Admits(Session, cmd[t])
    /\ MutexFree(counter_mutex)
    /\ counter_mutex' = counter_mutex \cup {t}
    /\ pc' = [pc EXCEPT ![t] = "counter_locked"]
    /\ UNCHANGED <<session_mutex, cmd, val, generated, open_result>>
    /\ UNCHANGED sessionVars

\* next_counter: *counter += 1
AddCounter(t) ==
    /\ pc[t] = "counter_locked"
    /\ counter' = counter + 1
    /\ pc' = [pc EXCEPT ![t] = "added"]
    /\ UNCHANGED <<storage, transient, issued, db, ret>>
    /\ UNCHANGED <<session_mutex, counter_mutex, cmd, val, generated, open_result>>

\* next_counter: *counter is returned and the guard dropped
ReturnCounter(t) ==
    /\ pc[t] = "added"
    /\ val' = [val EXCEPT ![t] = counter]
    /\ issued' = Append(issued, counter)
    /\ counter_mutex' = counter_mutex \ {t}
    /\ pc' = [pc EXCEPT ![t] = "has_value"]
    /\ UNCHANGED <<storage, transient, counter, db, ret>>
    /\ UNCHANGED <<session_mutex, cmd, generated, open_result>>

\* a Register that drops the guard of the session once its result is stored
RegisterDroppingGuard(t) ==
    /\ pc[t] = "has_value"
    /\ LET Store(name, out) ==
               /\ generated' = Append(generated,
                                      [thread |-> t, cmd |-> cmd[t], value |-> val[t],
                                       name |-> name])
               /\ transient' = out.s.transient
               /\ db' = out.s.db
               /\ pc' = [pc EXCEPT ![t] = IF out.res.ok THEN "registered" ELSE "failed"]
       IN  Store(ResultName(cmd[t], val[t]),
                 Work(Session, cmd[t], ResultName(cmd[t], val[t])))
    /\ session_mutex' = session_mutex \ {t}
    /\ UNCHANGED <<storage, counter, issued, ret>>
    /\ UNCHANGED <<counter_mutex, cmd, val, open_result>>

\* the method formats its name with the value and stores its result under
\* it; an error leaves the closure through ?
Register(t) ==
    /\ pc[t] = "has_value"
    /\ LET Store(name, out) ==
               /\ generated' = Append(generated,
                                      [thread |-> t, cmd |-> cmd[t], value |-> val[t],
                                       name |-> name])
               /\ transient' = out.s.transient
               /\ db' = out.s.db
               /\ pc' = [pc EXCEPT ![t] = IF out.res.ok THEN "registered" ELSE "failed"]
       IN  Store(ResultName(cmd[t], val[t]),
                 Work(Session, cmd[t], ResultName(cmd[t], val[t])))
    /\ UNCHANGED <<storage, counter, issued, ret>>
    /\ UNCHANGED <<session_mutex, counter_mutex, cmd, val, open_result>>

\* make_open_result(&session, &name) reads the metadata of the result
MakeOpenResult(t) ==
    /\ pc[t] = "registered"
    /\ open_result' = [open_result EXCEPT
                    ![t] = Some(make_open_result(Session,
                                                 ResultName(cmd[t], val[t])))]
    /\ pc' = [pc EXCEPT ![t] = "opened"]
    /\ UNCHANGED <<session_mutex, counter_mutex, cmd, val, generated>>
    /\ UNCHANGED sessionVars

\* a command that returns without dropping the MutexGuard of the session
UnlockSessionLeakingGuard(t) ==
    /\ pc[t] \in {"opened", "failed"}
    /\ pc' = [pc EXCEPT ![t] = "idle"]
    /\ cmd' = [cmd EXCEPT ![t] = NoCommand]
    /\ val' = [val EXCEPT ![t] = 0]
    /\ open_result' = [open_result EXCEPT ![t] = None]
    /\ UNCHANGED <<session_mutex, counter_mutex, generated>>
    /\ UNCHANGED sessionVars

\* the command returns: the MutexGuard of the session is dropped
UnlockSession(t) ==
    /\ pc[t] \in {"opened", "failed"}
    /\ session_mutex' = session_mutex \ {t}
    /\ pc' = [pc EXCEPT ![t] = "idle"]
    /\ cmd' = [cmd EXCEPT ![t] = NoCommand]
    /\ val' = [val EXCEPT ![t] = 0]
    /\ open_result' = [open_result EXCEPT ![t] = None]
    /\ UNCHANGED <<counter_mutex, generated>>
    /\ UNCHANGED sessionVars

\* the application starts with RustoraSession::new(): the in-memory store,
\* or none when open_in_memory() failed
InitDesktop ==
    /\ DesktopIdle
    /\ storage \in {MemDb, NoStore}
    /\ transient = EmptyMap
    /\ counter = 0
    /\ issued = <<>>
    /\ db = [d \in {MemDb, P1} |-> IF d = P1 THEN EarlierTables ELSE EmptyMap]
    /\ ret = Idle

NextDesktop ==
    \/ \E t \in Threads : Invoke(t)
    \/ \E t \in Threads : LockSession(t)
    \/ \E t \in Threads : Reject(t)
    \/ \E t \in Threads : LockCounter(t)
    \/ \E t \in Threads : AddCounter(t)
    \/ \E t \in Threads : ReturnCounter(t)
    \/ \E t \in Threads : Register(t)
    \/ \E t \in Threads : MakeOpenResult(t)
    \/ \E t \in Threads : UnlockSession(t)

SpecDesktop == InitDesktop /\ [][NextDesktop]_vars

\* the steps of a thread inside a session method, told by its position: the
\* methods have no loop and wait for nothing but the counter mutex.
\* The checks of the method end: it leaves with its error or goes on into
\* next_counter, which needs the counter mutex free
ChecksReturn(t) ==
    /\ pc[t] = "in_session"
    /\ MutexFree(counter_mutex)
    /\ \E p \in {"failed", "counter_locked"} : pc' = [pc EXCEPT ![t] = p]

RegisterReturns(t) ==
    /\ pc[t] = "has_value"
    /\ \E p \in {"registered", "failed"} : pc' = [pc EXCEPT ![t] = p]

MakeOpenResultReturns(t) ==
    /\ pc[t] = "registered"
    /\ pc' = [pc EXCEPT ![t] = "opened"]

\* a fair scheduler: a thread whose next step stays possible takes it, and
\* a thread that waits in lock() gets the mutex if it is free again and
\* again.  The frontend need not invoke anything.
FairDesktop ==
    \A t \in Threads :
        /\ SF_vars(LockSession(t))
        /\ SF_pc(ChecksReturn(t))
        /\ WF_vars(AddCounter(t))
        /\ WF_vars(ReturnCounter(t))
        /\ WF_pc(RegisterReturns(t))
        /\ WF_pc(MakeOpenResultReturns(t))
        /\ WF_vars(UnlockSession(t))

SpecDesktopFair == InitDesktop /\ [][NextDesktop]_vars /\ FairDesktop

(***************************************************************************)
(* The filter compiler on its own: a FilterSpec is drawn, to_sql_where     *)
(* compiles it.                                                            *)
(***************************************************************************)
\* column names: valid ones, the empty one, ones with a character outside
\* the allow-list, and names of 256, 257 and 258 bytes
CompilerColumns ==
    {ColK, ColS, <<"k", " ", "1", ".", "_">>, <<>>, <<"a", "-", "b">>,
     <<"c", ";", "x">>, <<"\"">>, <<EAcute>>,
     [i \in 1..MaxColumnBytes |-> "a"],
     [i \in 1..MaxColumnBytes + 1 |-> "a"],
     [i \in 1..MaxColumnBytes \div 2 |-> EAcute],
     [i \in 1..MaxColumnBytes \div 2 + 1 |-> EAcute]}

\* test_like_wildcards_escaped: the value 100%_done
WildcardValue == <<"1", "0", "0", "%", "_", "d", "o", "n", "e">>

\* a value with a wildcard character after a backslash: a\%
BackslashPercent == <<"a", "\\", "%">>

\* values: numbers in the forms f64 parses, near misses, and text with
\* quotes, semicolons, comments and LIKE wildcards
CompilerValues ==
    {<<>>, <<"1">>, <<"1", ".", "5">>, <<".", "5">>, <<"1", ".">>, <<".">>,
     <<"1", "e", "5">>, <<"1", "E", "-", "5">>, <<"1", "e">>, <<"e", "5">>,
     <<"-", "1">>, <<"+">>, <<"i", "n", "f">>, <<"-", "I", "n", "f", "i", "n", "i", "t", "y">>,
     <<"N", "a", "N">>, <<"1", " ">>, <<"1", "_", "0">>, <<"0", ";", "-", "-">>,
     <<"x">>, <<"i", "t", "'", "s">>, <<"'">>, <<"'", "'">>, <<"%", "_">>,
     <<"\\">>, BackslashPercent, InjValue, WildcardValue}

\* the conditions the two-condition specs are built from
PairConditions ==
    {[column |-> c, operator |-> o, value |-> v] :
        c \in {ColK, <<>>, <<"a", "-", "b">>}, o \in {"Equals", "Contains"},
        v \in {<<"1">>, <<"'">>}}

CompilerSpecs ==
    {[conditions |-> <<>>, logic |-> l] : l \in {"And", "Or"}}
      \cup {[conditions |-> <<[column |-> c, operator |-> o, value |-> v]>>,
             logic |-> "And"] :
                c \in CompilerColumns, o \in FilterOperators, v \in CompilerValues}
      \cup {[conditions |-> <<a, b>>, logic |-> l] :
                a \in PairConditions, b \in PairConditions, l \in {"And", "Or"}}

\* a FilterSpec has been built; no session is involved
InitFilter ==
    /\ DesktopIdle
    /\ storage = NoStore
    /\ transient = EmptyMap
    /\ counter = 0
    /\ issued = <<>>
    /\ db = [d \in {MemDb, P1} |-> EmptyMap]
    /\ \E f \in CompilerSpecs : ret = [op |-> "FilterSpec", args |-> [spec |-> f]]

\* spec.to_sql_where()
ToSqlWhere ==
    /\ ret.op = "FilterSpec"
    /\ ret' = [op |-> "to_sql_where", args |-> ret.args,
               res |-> to_sql_where(ret.args.spec), pre |-> Session]
    /\ UNCHANGED <<storage, transient, counter, issued, db>>
    /\ UNCHANGED desktopVars

NextFilter == ToSqlWhere

SpecFilter == InitFilter /\ [][NextFilter]_vars

(***************************************************************************)
(* Properties.  They read the call that has just returned (ret) against    *)
(* the session before it (ret.pre) and the session after it (Session).     *)
(***************************************************************************)
InTables(S, n) == n \in TableNames(S)
InTransient(S, n) == n \in DOMAIN S.transient
InBoth(S, n) == InTables(S, n) /\ InTransient(S, n)
InNeither(S, n) == ~InTables(S, n) /\ ~InTransient(S, n)

\* what a name denotes under the resolution rule: the persistent table if
\* there is one, else the transient frame, else nothing
Denotes(S, n) ==
    IF InTables(S, n) THEN [substrate |-> "persistent", data |-> Tables(S)[n]]
    ELSE IF InTransient(S, n) THEN [substrate |-> "transient", data |-> S.transient[n]]
    ELSE [substrate |-> "none"]

PersistentWinsOps ==
    {"get_preview_ipc", "get_chunk_ipc", "get_row_count", "dataset_info",
     "sort_dataset", "export_to_csv", "export_to_parquet", "remove_dataset"}

\* C1: when the name passed is both a persistent table and a transient key,
\* get_preview_ipc, get_chunk_ipc, get_row_count, dataset_info, sort_dataset,
\* export_to_csv, export_to_parquet and remove_dataset act on the persistent
\* table: reads return the table's rows, schema and count, sort materializes
\* the table's rows (given no flag at all it fails in the store and
\* materializes nothing), remove drops the table, and the transient entry
\* is neither read nor changed.
C1_PersistentWins ==
    (ret.op \in PersistentWinsOps /\ InBoth(ret.pre, ret.args.name)) =>
        LET n == ret.args.name
            t == Tables(ret.pre)[n]
            sorted == sanitize_table_name(n \o SortedSuffix)
        IN  /\ transient = ret.pre.transient
            /\ CASE ret.op = "get_preview_ipc" ->
                      ret.res = Ok([cols |-> t.cols,
                                    rows |-> SliceRows(t.rows, 0, ret.args.limit)])
                 [] ret.op = "get_chunk_ipc" ->
                      ret.res = Ok([cols |-> t.cols,
                                    rows |-> SliceRows(t.rows, ret.args.offset,
                                                       ret.args.limit)])
                 [] ret.op = "get_row_count" -> ret.res = Ok(Len(t.rows))
                 [] ret.op = "dataset_info" ->
                      /\ ret.res.ok
                      /\ ret.res.val.persistent
                      /\ ret.res.val.column_names = t.cols
                      /\ ret.res.val.estimated_rows = Some(Len(t.rows))
                 [] ret.op = "sort_dataset"
                        /\ Zip(ret.args.columns, ret.args.descending) = <<>> ->
                      /\ ret.res = Err("DuckDb")
                      /\ db = ret.pre.db
                 [] ret.op = "sort_dataset"
                        /\ Zip(ret.args.columns, ret.args.descending) # <<>> ->
                      /\ ret.res = Ok(n \o SortedSuffix)
                      /\ InTables(Session, sorted)
                      /\ Tables(Session)[sorted].cols = t.cols
                      /\ Len(Tables(Session)[sorted].rows) = Len(t.rows)
                      /\ Range(Tables(Session)[sorted].rows) = Range(t.rows)
                 [] ret.op \in {"export_to_csv", "export_to_parquet"} ->
                      ret.res = Ok(t)
                 [] ret.op = "remove_dataset" ->
                      /\ ret.res = Ok(TRUE)
                      /\ ~InTables(Session, n)

\* a sort of a name whose table and transient frame hold different rows
C1_Witness ==
    /\ ret.op = "sort_dataset"
    /\ InBoth(ret.pre, ret.args.name)
    /\ Range(ret.pre.transient[ret.args.name].rows)
            # Range(Tables(ret.pre)[ret.args.name].rows)
    /\ ret.res.ok

MissingNameOps ==
    {"get_preview_ipc", "get_chunk_ipc", "get_row_count", "dataset_info",
     "sort_dataset", "filter_dataset_sql", "filter_dataset_structured",
     "group_by", "add_calculated_column", "summary_stats_ipc",
     "export_to_csv", "export_to_parquet"}

\* C2: a read or transform operation given a name that is neither a
\* persistent table nor a transient key fails with TableNotFound and leaves
\* the tables, the transient map and the counter as they were.
C2_MissingNameIsTableNotFound ==
    (ret.op \in MissingNameOps /\ InNeither(ret.pre, ret.args.name)) =>
        /\ ret.res = Err("TableNotFound")
        /\ Session = ret.pre

\* C3: the name a successful import_file returns is the name of the table it
\* created: it is in list_datasets, and dataset_info and get_preview_ipc on
\* it succeed.
C3_ImportReturnsUsableName ==
    (ret.op = "import_file" /\ ret.res.ok) =>
        /\ ret.res.val \in Range(list_datasets(Session))
        /\ dataset_info(Session, ret.res.val).ok
        /\ \A l \in Limits : get_preview_ipc(Session, ret.res.val, l).ok

TransformOps ==
    {"sort_dataset", "filter_dataset", "filter_dataset_sql",
     "filter_dataset_structured", "group_by", "add_calculated_column"}

\* the name a successful transform registered its result under: the table
\* the storage created for a persistent source, else the transient key
RegisteredName(r) ==
    IF r.op # "filter_dataset" /\ InTables(r.pre, r.args.name)
    THEN sanitize_table_name(r.res.val)
    ELSE r.res.val

\* the caller's SQL text goes on with statements of its own
AppendsStatements(r) ==
    \/ r.op = "filter_dataset_sql" /\ ParseWhere(r.args.where_clause).tail # <<>>
    \/ r.op = "execute_sql" /\ ParseSql(r.args.sql).tail # <<>>

\* a successful transform registered its result under another name than its
\* source, and the source denotes what it denoted before
SourcePreserved ==
    /\ RegisteredName(ret) # ret.args.name
    /\ ~InNeither(Session, RegisteredName(ret))
    /\ Denotes(Session, ret.args.name) = Denotes(ret.pre, ret.args.name)

\* C4, as stated: every successful sort_dataset, filter_dataset,
\* filter_dataset_sql, filter_dataset_structured, group_by and
\* add_calculated_column on X registers its result under a name other than
\* X and leaves the dataset X denotes (rows, order, schema, substrate) as it
\* was.
C4_Original == (ret.op \in TransformOps /\ ret.res.ok) => SourcePreserved

\* C4, amended: the same, for calls whose caller-supplied SQL text is one
\* predicate or expression and appends no statement of its own.
C4_SourcePreserved ==
    (ret.op \in TransformOps /\ ret.res.ok /\ ~AppendsStatements(ret))
        => SourcePreserved

\* a successful filter_dataset_sql of a persistent table with a plain predicate
C4_Witness ==
    /\ ret.op = "filter_dataset_sql"
    /\ ret.res.ok
    /\ ~AppendsStatements(ret)
    /\ InTables(Session, RegisteredName(ret))
    /\ Tables(Session)[RegisteredName(ret)] # Tables(ret.pre)[ret.args.name]

\* C5: the counter never decreases, whatever the calls (open_project and
\* new_project included), and the k-th call of next_counter returns k, so
\* no value is handed out twice.
C5_CounterNeverReused ==
    /\ [](Len(issued) = counter /\ \A k \in 1..Len(issued) : issued[k] = k)
    /\ [][counter' >= counter]_vars

\* open_project succeeds on a session that has handed out two values
C5_Witness ==
    /\ ret.op = "open_project"
    /\ ret.res.ok
    /\ ret.pre.issued = <<1, 2>>

\* C7: import_file without an explicit name creates its table under a name
\* that was no table before the call, so it replaces no existing table.
C7_GeneratedNameIsFresh ==
    (ret.op = "import_file" /\ ~ret.args.table_name.some /\ ret.res.ok) =>
        ~InTables(ret.pre, sanitize_table_name(ret.res.val))

\* C8: after a successful open_project or new_project, a name that was a
\* transient key and is no table of the store now open is unreachable:
\* get_preview_ipc, get_chunk_ipc, get_row_count and dataset_info fail with
\* TableNotFound and list_datasets does not contain it.
C8_TransientClearedOnOpen ==
    (ret.op \in {"open_project", "new_project"} /\ ret.res.ok) =>
        \A n \in DOMAIN ret.pre.transient :
            ~InTables(Session, n) =>
                /\ \A l \in Limits : get_preview_ipc(Session, n, l) = Err("TableNotFound")
                /\ \A o \in Offsets, l \in Limits :
                        get_chunk_ipc(Session, n, o, l) = Err("TableNotFound")
                /\ get_row_count(Session, n) = Err("TableNotFound")
                /\ dataset_info(Session, n) = Err("TableNotFound")
                /\ n \notin Range(list_datasets(Session))

\* open_project succeeds on a session with a transient name the open_result
\* store has no table for
C8_Witness ==
    /\ ret.op = "open_project"
    /\ ret.res.ok
    /\ \E n \in DOMAIN ret.pre.transient : ~InTables(Session, n)

\* C9: if remove_dataset(name) returns true, list_datasets right after does
\* not contain name, also when name was both a table and a transient key.
C9_RemovedIsNotListed ==
    (ret.op = "remove_dataset" /\ ret.res = Ok(TRUE)) =>
        ret.args.name \notin Range(list_datasets(Session))

\* C10: remove_dataset on a name that is neither a persistent table nor a
\* transient key returns Ok(false) and changes nothing.
C10_RemoveMissingIsFalse ==
    (ret.op = "remove_dataset" /\ InNeither(ret.pre, ret.args.name)) =>
        /\ ret.res = Ok(FALSE)
        /\ Session = ret.pre

\* remove_dataset of a name that is no dataset, in a session that has some
C10_Witness ==
    /\ ret.op = "remove_dataset"
    /\ InNeither(ret.pre, ret.args.name)
    /\ TableNames(ret.pre) # {}
    /\ DOMAIN ret.pre.transient # {}

\* C6: under every interleaving of the commands that share the session, no
\* two name-generating operations obtain the same value of the counter, and
\* no two generated names are equal.
C6_GeneratedNamesUnique ==
    /\ \A i, j \in 1..Len(issued) : i # j => issued[i] # issued[j]
    /\ \A i, j \in 1..Len(generated) :
            i # j => /\ generated[i].value # generated[j].value
                     /\ generated[i].name # generated[j].name

\* two threads have run the same command and each has registered its name
C6_Witness ==
    /\ Len(generated) = 2
    /\ generated[1].thread # generated[2].thread
    /\ generated[1].cmd = generated[2].cmd
    /\ pc[generated[2].thread] = "registered"

CounterNamedOps ==
    {"filter_dataset_sql", "filter_dataset_structured", "group_by",
     "add_calculated_column", "execute_sql"}

\* the call r once more, with the same arguments, on session S
Again(S, r) ==
    CASE r.op = "filter_dataset_sql" ->
            filter_dataset_sql(S, r.args.name, r.args.where_clause)
      [] r.op = "filter_dataset_structured" ->
            filter_dataset_structured(S, r.args.name, r.args.spec)
      [] r.op = "group_by" ->
            group_by(S, r.args.name, r.args.group_columns, r.args.agg_exprs)
      [] r.op = "add_calculated_column" ->
            add_calculated_column(S, r.args.name, r.args.expr, r.args.alias)
      [] r.op = "execute_sql" -> execute_sql(S, r.args.sql)

\* the counter a generated name ends in: the digits after its last '_'
CounterSuffix(name) ==
    ParseDigits(SubSeq(name, LastIndexOf(name, "_") + 1, Len(name)))

\* the call that has returned, made once more, returns another name with a
\* larger counter suffix, and the tables of both calls exist after it
SecondCallDistinct ==
    LET second == Again(Session, ret)
    IN  /\ second.res.ok
        /\ second.res.val # ret.res.val
        /\ CounterSuffix(second.res.val) > CounterSuffix(ret.res.val)
        /\ InTables(second.s, sanitize_table_name(ret.res.val))
        /\ InTables(second.s, sanitize_table_name(second.res.val))

\* C11, as stated: a counter-named operation (filter_dataset_sql,
\* filter_dataset_structured, group_by, add_calculated_column, execute_sql)
\* called twice with the same arguments returns two distinct names, the
\* second with the larger counter suffix, and both result tables exist.
C11_Original == (ret.op \in CounterNamedOps /\ ret.res.ok) => SecondCallDistinct

\* C11, amended: the same, for calls whose SQL text appends no statement of
\* its own.
C11_SecondCallDistinct ==
    (ret.op \in CounterNamedOps /\ ret.res.ok /\ ~AppendsStatements(ret))
        => SecondCallDistinct

\* a group_by has returned its first name and the same call can be made again
C11_Witness ==
    /\ ret.op = "group_by"
    /\ ret.res.ok
    /\ CounterSuffix(ret.res.val) = 1
    /\ Again(Session, ret).res.ok

SortedName(X) == X \o <<"_", "s", "o", "r", "t", "e", "d">>

\* rows are in the order of column idx, ascending or descending
IsOrdered(rows, idx, desc) ==
    \A i, j \in 1..Len(rows) :
        i < j => IF desc THEN rows[i][idx] >= rows[j][idx]
                 ELSE rows[i][idx] <= rows[j][idx]

\* the dataset a sort of X stored: the table X_sorted when X is a table,
\* else the transient frame X_sorted
Stored(S, pre, X) ==
    IF InTables(pre, X)
    THEN [data |-> Tables(S)[sanitize_table_name(SortedName(X))], fails |-> FALSE]
    ELSE [data |-> S.transient[SortedName(X)],
          fails |-> S.transient[SortedName(X)].fails]

\* C12: a successful sort_dataset of X returns exactly X_sorted, for a table
\* and for a transient frame; another sort of X, whatever its columns and
\* flags of equal length, returns X_sorted again and replaces the dataset stored under that
\* name, so that the number of datasets stays what it was after the first.
C12_SortOverwrites ==
    (ret.op = "sort_dataset" /\ ret.res.ok) =>
        LET X == ret.args.name
        IN  /\ ret.res.val = SortedName(X)
            /\ ~InNeither(Session, SortedName(X))
            /\ \A a \in {b \in SortArgs : Len(b.columns) = Len(b.descending)} :
                LET second == sort_dataset(Session, X, a.columns, a.descending)
                    d == Stored(second.s, Session, X)
                IN  /\ second.res = Ok(SortedName(X))
                    /\ Len(list_datasets(second.s)) = Len(list_datasets(Session))
                    /\ InTables(Session, X) = InTables(ret.pre, X)
                    /\ d.fails \/ IsOrdered(d.data.rows,
                                            IndexOf(d.data.cols, a.columns[1]),
                                            a.descending[1])

\* a table has been sorted, and sorting it the other way round puts other
\* rows under the same name
C12_Witness ==
    /\ ret.op = "sort_dataset"
    /\ ret.res.ok
    /\ InTables(ret.pre, ret.args.name)
    /\ \E a \in SortArgs :
        LET second == sort_dataset(Session, ret.args.name, a.columns, a.descending)
        IN  Denotes(second.s, SortedName(ret.args.name))
                # Denotes(Session, SortedName(ret.args.name))

NeedsStoreOps ==
    {"import_file", "execute_sql", "execute_sql_to_ipc", "filter_dataset_sql",
     "group_by", "add_calculated_column", "summary_stats_ipc",
     "aggregate_for_chart"}

\* C14: with no persistent store, import_file, execute_sql,
\* execute_sql_to_ipc, filter_dataset_sql, group_by, add_calculated_column,
\* summary_stats_ipc and aggregate_for_chart fail with NoProjectOpen and
\* change neither the transient map nor the counter.
C14_NoStoreIsNoProjectOpen ==
    (ret.op \in NeedsStoreOps /\ ~HasStore(ret.pre)) =>
        /\ ret.res = Err("NoProjectOpen")
        /\ transient = ret.pre.transient
        /\ counter = ret.pre.counter

\* no open_project or new_project has succeeded on the session S
NeverOpened(S) == S.storage \notin ProjectPaths

FreshOps == {"import_file", "execute_sql"}

Materializes(r) ==
    \/ r.op \in {"import_file", "execute_sql", "filter_dataset_sql", "group_by",
                 "add_calculated_column"}
    \/ r.op = "sort_dataset" /\ InTables(r.pre, r.args.name)

\* on error the databases are as before the call; on success the target
\* table exists and every other table is as before
AllOrNothing ==
    IF ret.res.ok
    THEN LET target == sanitize_table_name(ret.res.val)
         IN  /\ InTables(Session, target)
             /\ TableNames(Session) \ {target} = TableNames(ret.pre) \ {target}
             /\ \A t \in TableNames(ret.pre) \ {target} :
                    Tables(Session)[t] = Tables(ret.pre)[t]
    ELSE db = ret.pre.db

InSessionCode ==
    {"in_session", "counter_locked", "added", "has_value", "registered",
     "opened", "failed"}

\* C17: in the desktop application at most one command executes session
\* code at any instant; a command holds the session lock from before its
\* first session call until after its last one, the metadata read of
\* make_open_result included, and while it is between the two no step of
\* another command changes the session: what make_open_result returned is
\* the metadata of the result the command itself stored.
C17_CommandsAreSerialized ==
    /\ [](/\ Cardinality({t \in Threads : pc[t] \in InSessionCode}) <= 1
          /\ \A t \in Threads :
                /\ pc[t] \in InSessionCode => session_mutex = {t}
                /\ pc[t] = "opened" =>
                       open_result[t] = Some(make_open_result(Session,
                                           ResultName(cmd[t], val[t]))))
    /\ [][\A t \in Threads :
            (pc[t] \in InSessionCode /\ pc'[t] = pc[t]) =>
                UNCHANGED <<storage, transient, counter, issued, db>>]_vars

\* a command has stored its result and read its metadata while another
\* command waits for the session
C17_Witness ==
    \E t, u \in Threads :
        /\ pc[t] = "opened"
        /\ open_result[t].v.ok
        /\ open_result[t].v.val.persistent
        /\ cmd[t].op = "import_file"
        /\ pc[u] = "invoked"

\* a column name the allow-list rejects: empty, more than 256 bytes, or a
\* character that is no letter, digit, underscore, space or dot
ViolatesAllowList(column) ==
    \/ column = <<>>
    \/ Utf8Len(column) > MaxColumnBytes
    \/ \E i \in 1..Len(column) :
          ~(column[i] \in Letters \cup Uppers \cup Digits \cup {EAcute, "_", " ", "."})

Emitted(cond, text) ==
    SubSeq(text, Len(cond.column) + Len(OperatorText(cond.operator)) + 5, Len(text))

\* text is one single-quoted literal that denotes value
IsLiteralOf(text, value) ==
    /\ Len(text) >= 2
    /\ text[1] = "'"
    /\ QuotedEnd(text, 2, "'") = Len(text)
    /\ Undouble(SubSeq(text, 2, Len(text) - 1), "'") = value

\* values f64's FromStr accepts, and values it rejects
KnownNumbers ==
    {<<"1">>, <<"1", ".", "5">>, <<".", "5">>, <<"1", ".">>, <<"1", "e", "5">>,
     <<"1", "E", "-", "5">>, <<"-", "1">>, <<"i", "n", "f">>, <<"N", "a", "N">>,
     <<"-", "I", "n", "f", "i", "n", "i", "t", "y">>}
KnownNonNumbers ==
    {<<>>, <<".">>, <<"1", "e">>, <<"e", "5">>, <<"+">>, <<"1", " ">>,
     <<"1", "_", "0">>, <<"0", ";", "-", "-">>, <<"x">>, <<"'">>, InjValue}

\* C20: for Equals, NotEquals, GreaterThan, GreaterThanOrEqual, LessThan and
\* LessThanOrEqual the compiled condition is the quoted column, the
\* operator, and the value bare if and only if the whole value parses as a
\* double-precision number; every other value is emitted as one
\* single-quoted literal with each embedded single quote doubled.
C20_BareIffNumeric ==
    (/\ ret.op = "to_sql_where"
     /\ Len(ret.args.spec.conditions) = 1
     /\ ret.args.spec.conditions[1].operator \in ComparisonOperators
     /\ ret.res.ok) =>
        LET cond == ret.args.spec.conditions[1]
            text == ret.res.val
            emitted == Emitted(cond, text)
        IN  /\ text = <<"\"">> \o cond.column \o <<"\"", " ">>
                        \o OperatorText(cond.operator) \o <<" ">> \o emitted
            /\ ParsesAsF64(cond.value) <=> emitted = cond.value
            /\ ~ParsesAsF64(cond.value) <=> IsLiteralOf(emitted, cond.value)
            /\ cond.value \in KnownNumbers => emitted = cond.value
            /\ cond.value \in KnownNonNumbers => IsLiteralOf(emitted, cond.value)

C20_Witness ==
    /\ ret.op = "to_sql_where"
    /\ ret.res.ok
    /\ Len(ret.args.spec.conditions) = 1
    /\ ret.args.spec.conditions[1].operator = "LessThanOrEqual"
    /\ ret.args.spec.conditions[1].value = <<"i", "t", "'", "s">>
    /\ ret.res.val = <<"\"", "k", "\"", " ", "<", "=", " ", "'", "i", "t", "'", "'", "s", "'">>

\* a value with a quote, a semicolon or a comment marker in it
HasSqlCharacters(value) ==
    \E i \in 1..Len(value) :
        \/ value[i] \in {"'", ";"}
        \/ i < Len(value) /\ value[i] = "-" /\ value[i + 1] = "-"

\* for every value-bearing operator, a short valid column and a value with
\* SQL characters, the compiled text is one condition and no more: the
\* quoted column, the operator, and one string literal, which for the
\* comparison operators denotes the value itself
CompiledTextIsOneCondition ==
    \A c \in CompilerColumns, o \in FilterOperators \ {"IsNull", "IsNotNull"},
       v \in CompilerValues :
        (HasSqlCharacters(v) /\ ~ViolatesAllowList(c) /\ Len(c) <= MaxNameLen) =>
            LET spec == [conditions |-> <<[column |-> c, operator |-> o, value |-> v]>>,
                         logic |-> "And"]
                toks == Lex(to_sql_where(spec).val, 1)
            IN  /\ toks[1] = [t |-> "id", v |-> c]
                /\ toks[Len(toks)].t = "str"
                /\ \A i \in 2..Len(toks) - 1 : toks[i].t \in {"op", "word"}
                /\ o \in ComparisonOperators =>
                       toks = <<[t |-> "id", v |-> c],
                                [t |-> "op", v |-> OperatorText(o)],
                                [t |-> "str", v |-> v]>>

\* C18: a successful filter_dataset_structured whose values contain quote,
\* semicolon or comment characters changes the store only by creating the
\* result table <name>_filtered_<counter>: every other table is there as
\* before, none is added, and the rows of the result are the rows of the
\* source whose column equals the value as a literal string; whatever the
\* operator, the compiled text of such a value is one condition whose value
\* is one string literal.
C18_ValuesAreLiterals ==
    /\ CompiledTextIsOneCondition
    /\ (/\ ret.op = "filter_dataset_structured"
        /\ ret.res.ok
        /\ \E i \in 1..Len(ret.args.spec.conditions) :
              HasSqlCharacters(ret.args.spec.conditions[i].value)) =>
           LET cond == ret.args.spec.conditions[1]
               source == Tables(ret.pre)[ret.args.name]
               target == ret.args.name \o FilteredSuffix \o <<"_">> \o FormatU64(counter)
               created == sanitize_table_name(target)
           IN  /\ ret.res.val = target
               /\ counter = ret.pre.counter + 1
               /\ TableNames(Session) = TableNames(ret.pre) \cup {created}
               /\ \A t \in TableNames(ret.pre) \ {created} :
                      Tables(Session)[t] = Tables(ret.pre)[t]
               /\ \A d \in DOMAIN db : d # storage => db[d] = ret.pre.db[d]
               /\ storage = ret.pre.storage
               /\ transient = ret.pre.transient
               /\ Len(ret.args.spec.conditions) = 1 /\ cond.operator = "Equals"
               /\ Tables(Session)[created] =
                      [cols |-> source.cols,
                       rows |-> SelectSeq(source.rows,
                                   LAMBDA r : r[IndexOf(source.cols, cond.column)]
                                                  = cond.value)]

\* the value names table d in a DROP, d is there before and after, and the
\* filter found the one row that holds the value
C18_Witness ==
    /\ ret.op = "filter_dataset_structured"
    /\ ret.res.ok
    /\ ret.args.spec.conditions[1].value = InjValue
    /\ InTables(ret.pre, NameD)
    /\ InTables(Session, NameD)
    /\ Len(Tables(Session)[sanitize_table_name(ret.res.val)].rows) = 1

(***************************************************************************)
(* The compiled text as the database reads it.                             *)
(***************************************************************************)
LikeOperators == {"Contains", "NotContains", "StartsWith", "EndsWith"}

\* value with a backslash before every % and _
BackslashWildcards(value) ==
    Replace(Replace(value, "%", <<"\\", "%">>), "_", <<"\\", "_">>)

\* the pattern the claim describes for a LIKE operator: the escaped value
\* with % at the wrapping positions
WrappedPattern(operator, value) ==
    (IF operator = "StartsWith" THEN <<>> ELSE <<"%">>)
        \o BackslashWildcards(value)
        \o (IF operator = "EndsWith" THEN <<>> ELSE <<"%">>)

\* the content of the string literal a condition is to carry; none for
\* IsNull, IsNotNull and a bare number
LiteralsOf(cond) ==
    IF cond.operator \in LikeOperators
    THEN <<WrappedPattern(cond.operator, cond.value)>>
    ELSE IF cond.operator \in ComparisonOperators /\ ~ParsesAsF64(cond.value)
    THEN <<cond.value>>
    ELSE <<>>

RECURSIVE Flatten(_)
Flatten(seqs) == IF seqs = <<>> THEN <<>> ELSE Head(seqs) \o Flatten(Tail(seqs))

\* the values of the tokens of the given type, in order
TokensOf(toks, type) ==
    LET sel == SelectSeq(toks, LAMBDA k : k.t = type)
    IN  [i \in 1..Len(sel) |-> sel[i].v]

\* a spec with at least one condition whose column names are all valid (and
\* short enough for the lexer of the model)
WellFormed(spec) ==
    /\ spec.conditions # <<>>
    /\ \A i \in 1..Len(spec.conditions) :
          /\ ~ViolatesAllowList(spec.conditions[i].column)
          /\ Len(spec.conditions[i].column) <= MaxNameLen

\* C21: for a spec with at least one condition and valid column names
\* to_sql_where returns text in which the string literals are, in order,
\* exactly the values (or LIKE patterns) of the conditions, so every quote of
\* a value is inside a literal and doubled; and every identifier of the text
\* is one of the spec's columns, allow-listed and in double quotes: no word
\* of the text outside a literal is anything but a keyword.
C21_TextIsSanitized ==
    (ret.op = "to_sql_where" /\ WellFormed(ret.args.spec)) =>
        /\ ret.res.ok
        /\ LET conds == ret.args.spec.conditions
               toks == Lex(ret.res.val, 1)
           IN  /\ \A i \in 1..Len(toks) : toks[i].t # "error"
               /\ TokensOf(toks, "str")
                      = Flatten([i \in 1..Len(conds) |-> LiteralsOf(conds[i])])
               /\ TokensOf(toks, "id") = [i \in 1..Len(conds) |-> conds[i].column]
               /\ \A i \in 1..Len(toks) :
                      toks[i].t = "word" => ToLowercase(toks[i].v) \in Keywords

\* no escape character: LIKE without an ESCAPE clause
NoEscape == ""

\* s LIKE p ESCAPE esc: % matches any run of characters, _ any one character,
\* the character after esc itself, every other character itself
RECURSIVE LikeMatch(_, _, _)
LikeMatch(s, p, esc) ==
    IF p = <<>> THEN s = <<>>
    ELSE IF p[1] = esc /\ Len(p) >= 2
    THEN s # <<>> /\ s[1] = p[2] /\ LikeMatch(Tail(s), SubSeq(p, 3, Len(p)), esc)
    ELSE IF p[1] = "%"
    THEN \E k \in 0..Len(s) : LikeMatch(SubSeq(s, k + 1, Len(s)), Tail(p), esc)
    ELSE IF p[1] = "_" THEN s # <<>> /\ LikeMatch(Tail(s), Tail(p), esc)
    ELSE s # <<>> /\ s[1] = p[1] /\ LikeMatch(Tail(s), Tail(p), esc)

\* the rows a LIKE condition keeps: the text is <column> [NOT] LIKE
\* '<pattern>' with no ESCAPE clause
KeptByLike(toks, r) ==
    LET pattern == toks[Len(toks)].v
    IN  IF Len(toks) = 4 THEN ~LikeMatch(r, pattern, NoEscape)
        ELSE LikeMatch(r, pattern, NoEscape)

\* value occurs in r at position k
OccursAt(r, value, k) ==
    k + Len(value) - 1 <= Len(r) /\ SubSeq(r, k, k + Len(value) - 1) = value

\* what the operator is to select: rows that contain (do not contain, start
\* with, end with) the value as it is
KeptLiterally(operator, value, r) ==
    CASE operator = "Contains" -> \E k \in 1..Len(r) + 1 : OccursAt(r, value, k)
      [] operator = "NotContains" -> ~\E k \in 1..Len(r) + 1 : OccursAt(r, value, k)
      [] operator = "StartsWith" -> OccursAt(r, value, 1)
      [] operator = "EndsWith" ->
            Len(value) <= Len(r) /\ OccursAt(r, value, Len(r) - Len(value) + 1)

\* texts a row may hold in the filtered column
RowTexts ==
    {<<>>, <<"x">>, <<"'">>, <<"i", "t", "'", "s">>, <<"%", "_">>, <<"x", "y">>,
     <<"\\", "%", "\\", "_">>, <<"\\">>, <<"%">>, WildcardValue,
     <<"1", "0", "0", "x", "y", "d", "o", "n", "e">>,
     <<"1", "0", "0", "\\", "%", "\\", "_", "d", "o", "n", "e">>,
     <<"1", "0", "0", "\\", "\\", "x", "d", "o", "n", "e">>}

\* C22: for Contains, NotContains, StartsWith and EndsWith the compiled text
\* is the quoted column, [NOT] LIKE and one literal whose content is the
\* value with a backslash before every % and _ and % at the wrapping
\* positions only, and the condition keeps exactly the rows that contain
\* (do not contain, start with, end with) the value itself.
C22_LikeMatchesLiteral ==
    (/\ ret.op = "to_sql_where"
     /\ WellFormed(ret.args.spec)
     /\ Len(ret.args.spec.conditions) = 1
     /\ ret.args.spec.conditions[1].operator \in LikeOperators) =>
        LET cond == ret.args.spec.conditions[1]
            toks == Lex(ret.res.val, 1)
        IN  /\ ret.res.ok
            /\ Len(toks) = IF cond.operator = "NotContains" THEN 4 ELSE 3
            /\ toks[1] = [t |-> "id", v |-> cond.column]
            /\ \A i \in 2..Len(toks) - 1 : toks[i].t = "word"
            /\ [i \in 2..Len(toks) - 1 |-> ToLowercase(toks[i].v)]
                   = IF cond.operator = "NotContains"
                     THEN [i \in 2..3 |-> <<KwNot, KwLike>>[i - 1]]
                     ELSE [i \in 2..2 |-> KwLike]
            /\ toks[Len(toks)]
                   = [t |-> "str", v |-> WrappedPattern(cond.operator, cond.value)]
            /\ \A r \in RowTexts :
                   KeptByLike(toks, r) <=> KeptLiterally(cond.operator, cond.value, r)

\* the rows of dataset name in session S, in the dataset's order
RowsOf(S, name) ==
    IF IsPersistent(S, name) THEN Tables(S)[name].rows
    ELSE Collect(S.transient[name]).val.rows

\* C23: a successful get_chunk_ipc(name, offset, limit) returns the rows at
\* positions [offset, min(offset + limit, N)) of the dataset's N rows, in
\* order; the chunks at offsets 0, limit, 2 * limit, ... put together are the
\* whole sequence, each row once, and a chunk at an offset of N or more is
\* empty.
C23_ChunksPartitionRows ==
    (ret.op = "get_chunk_ipc" /\ ret.res.ok) =>
        LET full == RowsOf(ret.pre, ret.args.name)
            N == Len(full)
            o == ret.args.offset
            l == ret.args.limit
            chunk == ret.res.val.rows
            nth(k) == get_chunk_ipc(ret.pre, ret.args.name, k * l, l)
        IN  /\ Len(chunk) = IF o >= N THEN 0 ELSE Min(o + l, N) - o
            /\ \A j \in 1..Len(chunk) : chunk[j] = full[o + j]
            /\ \A k \in 0..N : nth(k).ok
            /\ Flatten([k \in 1..N + 1 |-> nth(k - 1).val.rows]) = full
            /\ \A k \in 0..N : k * l >= N => nth(k).val.rows = <<>>

\* the second chunk of size 1 of d sorted by k ascending is the row with
\* k = 2, which is the first row of the file; the first chunk is the other
C23_Witness ==
    /\ ret.op = "get_chunk_ipc"
    /\ ret.res.ok
    /\ ret.args = [name |-> SortedName(NameD), offset |-> 1, limit |-> 1]
    /\ ret.res.val.rows = <<(<<2, InjValue>>)>>
    /\ get_chunk_ipc(Session, SortedName(NameD), 0, 1).val.rows = <<(<<1, <<"x">>>>)>>
    /\ get_chunk_ipc(Session, SortedName(NameD), 2, 1).val.rows = <<>>

\* dataset_info and get_row_count of session S report dataset name as a
\* persistent table with the columns and the row count of data
ReportsAs(S, name, data) ==
    /\ dataset_info(S, name).ok
    /\ dataset_info(S, name).val.num_columns = Len(data.cols)
    /\ dataset_info(S, name).val.column_names = data.cols
    /\ dataset_info(S, name).val.persistent
    /\ dataset_info(S, name).val.estimated_rows = Some(Len(data.rows))
    /\ get_row_count(S, name) = Ok(Len(data.rows))

\* C24: after a successful import_file, dataset_info on the returned name
\* reports the file's column count, its column names in file order,
\* persistent = true and its row count, and get_row_count returns the row
\* count; when the store is a project file, the same is reported once the
\* file has been opened again with open_project.
C24_ImportRoundTrip ==
    (ret.op = "import_file" /\ ret.res.ok) =>
        /\ ReportsAs(Session, ret.res.val, FileData(ret.args.file_path))
        /\ storage \in ProjectPaths =>
              ReportsAs(open_project(Session, storage, "ok").s, ret.res.val,
                        FileData(ret.args.file_path))

(***************************************************************************)
(* C25: what a successful execute_sql leaves behind.                       *)
(***************************************************************************)
\* the call returned sql_result_<n> for the counter value n it took, the
\* table of that name is in the store with the rows of the query, the
\* transient map is as before, and the name is listed and read as persistent
SqlResultMaterialized ==
    /\ counter = ret.pre.counter + 1
    /\ ret.res.val = SqlResultPrefix \o <<"_">> \o FormatU64(counter)
    /\ transient = ret.pre.transient
    /\ InTables(Session, ret.res.val)
    /\ ret.res.val \in Range(list_datasets(Session))
    /\ IsPersistent(Session, ret.res.val)
    /\ dataset_info(Session, ret.res.val).ok
    /\ dataset_info(Session, ret.res.val).val.persistent

\* the statement of C25 as written: every successful execute_sql
C25_Original == (ret.op = "execute_sql" /\ ret.res.ok) => SqlResultMaterialized

\* C25: every successful execute_sql whose text is one query materializes a
\* persistent table sql_result_<counter> named with the counter value that
\* call took, returns that name and registers no transient entry; the name
\* is in list_datasets and resolves to the persistent table.
C25_SqlResultIsPersistent ==
    (ret.op = "execute_sql" /\ ret.res.ok /\ ~AppendsStatements(ret))
        => SqlResultMaterialized

C25_Witness ==
    /\ ret.op = "execute_sql"
    /\ ret.res.ok
    /\ ~AppendsStatements(ret)
    /\ ret.pre.counter >= 1
    /\ transient # EmptyMap
    /\ Tables(Session)[ret.res.val] = Tables(Session)[NameD]

(***************************************************************************)
(* C26: the read operations.                                               *)
(***************************************************************************)
ReadOps ==
    {"list_datasets", "dataset_info", "get_preview_ipc", "get_chunk_ipc",
     "get_row_count", "execute_sql_to_ipc", "summary_stats_ipc",
     "aggregate_for_chart"}

\* C26: list_datasets, dataset_info, get_preview_ipc, get_chunk_ipc,
\* get_row_count, execute_sql_to_ipc, summary_stats_ipc and
\* aggregate_for_chart leave the store handle, the transient map, the
\* counter and every table as they were, whether they return a value or an
\* error; execute_sql_to_ipc creates no table.
C26_ReadsChangeNothing ==
    (ret # Idle /\ ret.op \in ReadOps) =>
        /\ storage = ret.pre.storage
        /\ transient = ret.pre.transient
        /\ counter = ret.pre.counter
        /\ db = ret.pre.db
        /\ TableNames(Session) \subseteq TableNames(ret.pre)

(***************************************************************************)
(* C27: scan_file and the store.                                           *)
(***************************************************************************)
\* the path names an existing file of a supported format
Scannable(path) ==
    PathExists(path) /\ ToLowercase(Extension(path)) \in SupportedExts

\* the readers of session S give the frame of data under name, as transient
ReadsAsTransient(S, name, data) ==
    /\ dataset_info(S, name).ok
    /\ ~dataset_info(S, name).val.persistent
    /\ dataset_info(S, name).val.column_names = data.cols
    /\ get_row_count(S, name) = Ok(Len(data.rows))
    /\ \A l \in ChunkLimits :
          /\ get_preview_ipc(S, name, l)
                = Ok([cols |-> data.cols, rows |-> SliceRows(data.rows, 0, l)])
          /\ \A k \in ChunkIndexes :
                get_chunk_ipc(S, name, k * l, l)
                    = Ok([cols |-> data.cols,
                          rows |-> SliceRows(data.rows, k * l, l)])

\* the call succeeded with the name <file-stem>_<counter>, and left the
\* store and every table as they were
ScannedUnderGeneratedName ==
    /\ ret.res.ok
    /\ counter = ret.pre.counter + 1
    /\ ret.res.val = FileStem(ret.args.file_path) \o <<"_">> \o FormatU64(counter)
    /\ storage = ret.pre.storage
    /\ db = ret.pre.db
    /\ ret.res.val \in DOMAIN transient
    /\ \A n \in DOMAIN ret.pre.transient \ {ret.res.val} :
          n \in DOMAIN transient /\ transient[n] = ret.pre.transient[n]
    /\ DOMAIN transient \subseteq DOMAIN ret.pre.transient \cup {ret.res.val}

\* C27: scan_file on an existing file of a supported format succeeds with
\* or without a store, adds exactly one transient entry named
\* <file-stem>_<counter>, changes no table, and the entry is read by
\* dataset_info, get_preview_ipc, get_chunk_ipc and get_row_count as a
\* transient dataset (persistent = false).
C27_ScanNeedsNoStore ==
    (ret.op = "scan_file" /\ Scannable(ret.args.file_path)) =>
        /\ ScannedUnderGeneratedName
        /\ ret.res.val \notin DOMAIN ret.pre.transient
        /\ ReadsAsTransient(Session, ret.res.val, FileData(ret.args.file_path))

(***************************************************************************)
(* C28: the file errors of scan_file and import_file.                      *)
(***************************************************************************)
\* the call r failed, and the other of scan_file and import_file fails on
\* the same path from the same state with the same error
OtherFailsAlike(r) ==
    IF r.op = "scan_file"
    THEN HasStore(r.pre) => import_file(r.pre, r.args.file_path, None).res = r.res
    ELSE scan_file(r.pre, r.args.file_path).res = r.res

\* C28: scan_file, and import_file on a session with a store, fail with
\* UnsupportedFormat whenever the extension of the path is none of csv, tsv,
\* parquet, pq, ipc, arrow, feather, and with FileNotFound when a path with
\* one of these extensions does not exist; on every path the two fail with
\* the same error, and a failed call leaves the tables and the transient
\* map as they were.
C28_FileErrorsAgree ==
    (\/ ret.op = "scan_file"
     \/ ret.op = "import_file" /\ HasStore(ret.pre)) =>
        /\ ToLowercase(Extension(ret.args.file_path)) \notin SupportedExts
              => ret.res = Err("UnsupportedFormat")
        /\ (/\ ToLowercase(Extension(ret.args.file_path)) \in SupportedExts
            /\ ~PathExists(ret.args.file_path))
              => ret.res = Err("FileNotFound")
        /\ ~ret.res.ok =>
              /\ OtherFailsAlike(ret)
              /\ db = ret.pre.db
              /\ transient = ret.pre.transient

(***************************************************************************)
(* C29: aggregate_for_chart and the value column.                          *)
(***************************************************************************)
\* the call of ret with the value column given instead of left out, or left
\* out instead of given
WithOtherValueCol(r) ==
    aggregate_for_chart(r.pre, r.args.name, r.args.group_col,
                        IF r.args.value_col.some THEN None ELSE Some(ColK),
                        r.args.agg_type, r.args.limit)

\* on a table of the store: count gives the same with and without a value
\* column and succeeds when the group column is one of the table; any other
\* kind without a value column fails with the error kind; nothing changes
AggregateContract(kind) ==
    (ret.op = "aggregate_for_chart" /\ InTables(ret.pre, ret.args.name)) =>
        /\ ret.args.agg_type = "count" =>
              /\ ret.res = WithOtherValueCol(ret)
              /\ ret.res.ok <=>
                    ret.args.group_col
                        \in Range(Tables(ret.pre)[ret.args.name].cols)
        /\ (ret.args.agg_type # "count" /\ ~ret.args.value_col.some)
              => ret.res = Err(kind)
        /\ Session = ret.pre

\* the statement of C29 as written: the error is InvalidArgument
C29_Original == AggregateContract("InvalidArgument")

\* C29: aggregate_for_chart on an existing persistent table succeeds for
\* the kind count with or without a value column; every other kind called
\* without a value column fails with the Session error before any query is
\* run, and the session state is unchanged.
C29_MissingValueColumnIsSessionError == AggregateContract("Session")

C29_Witness ==
    /\ ret.op = "aggregate_for_chart"
    /\ InTables(ret.pre, ret.args.name)
    /\ ret.args.agg_type = "sum"
    /\ ~ret.args.value_col.some
    /\ ret.res = Err("Session")
    /\ aggregate_for_chart(Session, ret.args.name, ColK, None, "count", 1).ok

(***************************************************************************)
(* C30: sort_dataset with columns and flags of unequal length.             *)
(***************************************************************************)
\* C30: sort_dataset on an existing dataset, called with columns and
\* descending flags of unequal length, fails with InvalidArgument and
\* leaves every table and the transient map as they were.
C30_UnequalLengthsRejected ==
    (/\ ret.op = "sort_dataset"
     /\ ~InNeither(ret.pre, ret.args.name)
     /\ Len(ret.args.columns) # Len(ret.args.descending)) =>
        /\ ret.res = Err("InvalidArgument")
        /\ db = ret.pre.db
        /\ transient = ret.pre.transient

FilterOfTransientEntry(r) ==
    filter_dataset([r.pre EXCEPT !.storage = NoStore], r.args.name,
                   "gt1").s.transient[r.args.name \o FilteredSuffix]

\* C32: filter_dataset on a name that denotes a table of the store, also
\* when a transient entry of the same name exists, does not build its
\* result from the transient entry.
C32_FilterReadsPersistentFirst ==
    (/\ ret.op = "filter_dataset"
     /\ InBoth(ret.pre, ret.args.name)
     /\ ret.res.ok) =>
        ~ /\ InTransient(Session, ret.res.val)
          /\ transient[ret.res.val] = FilterOfTransientEntry(ret)

(***************************************************************************)
(* C33: the name of an expression filter.                                  *)
(***************************************************************************)
\* C33: a successful filter_dataset on transient source X takes a counter
\* value and returns X_filtered_<counter>, a name no dataset had before the
\* call, so that the result of an earlier filter of X stays registered as
\* it was.
C33_FilterNameCarriesCounter ==
    (ret.op = "filter_dataset" /\ ret.res.ok) =>
        /\ counter = ret.pre.counter + 1
        /\ ret.res.val = ret.args.name \o FilteredSuffix \o <<"_">> \o FormatU64(counter)
        /\ ~InTransient(ret.pre, ret.res.val)
        /\ \A n \in DOMAIN ret.pre.transient :
              InTransient(Session, n) /\ transient[n] = ret.pre.transient[n]

(***************************************************************************)
(* C34: the returned name and the dataset the call created.                *)
(***************************************************************************)
NamedResultOps ==
    {"sort_dataset", "filter_dataset_sql", "group_by", "add_calculated_column"}

\* C34: after a successful sort_dataset, filter_dataset_sql, group_by or
\* add_calculated_column the returned name resolves, tables first, to the
\* dataset the call created: to the table it materialized when the source
\* is a table, to the frame it registered when the source is transient.
C34_ReturnedNameResolves ==
    (ret.op \in NamedResultOps /\ ret.res.ok /\ ~AppendsStatements(ret)) =>
        IF InTables(ret.pre, ret.args.name)
        THEN /\ sanitize_table_name(ret.res.val) = ret.res.val
             /\ Denotes(Session, ret.res.val).substrate = "persistent"
        ELSE Denotes(Session, ret.res.val).substrate = "transient"

(***************************************************************************)
(* C35: a failing open_project or new_project.                             *)
(***************************************************************************)
\* C35: when open_project or new_project returns an error, because the
\* store cannot be opened or its tables cannot be listed, the session is
\* as before the call: the same store is active with the same tables, the
\* transient map has every entry it had, and the counter is unchanged.
C35_FailedOpenChangesNothing ==
    (ret.op \in {"open_project", "new_project"} /\ ~ret.res.ok) =>
        /\ storage = ret.pre.storage
        /\ db = ret.pre.db
        /\ transient = ret.pre.transient
        /\ counter = ret.pre.counter

\* both calls have failed on a session with a store, tables, a transient
\* entry and a counter that has been used: new_project now, and open_project
\* at the listing of the tables from the state that is left
C35_Witness ==
    /\ ret.op = "new_project"
    /\ ~ret.res.ok
    /\ TableNames(Session) # {}
    /\ transient # EmptyMap
    /\ counter >= 1
    /\ \E p \in ProjectPaths :
          open_project(Session, p, "list_fails") = Unchanged(Session, Err("DuckDb"))

(***************************************************************************)
(* C36: the counter on a failing call.                                     *)
(***************************************************************************)
\* the call r failed after it had a store (execute_sql, the import without
\* an explicit name) or a source table (the three SQL transforms)
FailedOnExistingSource(r) ==
    /\ ~r.res.ok
    /\ \/ r.op = "execute_sql" /\ HasStore(r.pre)
       \/ r.op = "import_file" /\ ~r.args.table_name.some /\ HasStore(r.pre)
       \/ /\ r.op \in {"filter_dataset_sql", "group_by", "add_calculated_column"}
          /\ InTables(r.pre, r.args.name)

\* the counter has advanced by one, the datasets are as before, and the
\* next value handed out is the one after the value the failed call took
CounterSkipsOne ==
    /\ counter = ret.pre.counter + 1
    /\ db = ret.pre.db
    /\ transient = ret.pre.transient
    /\ next_counter(Session).val = ret.pre.counter + 2

\* the failing calls that take no counter value
CounterKept ==
    /\ (ret.op = "filter_dataset_structured" /\ ~to_sql_where(ret.args.spec).ok)
          => ~ret.res.ok /\ counter = ret.pre.counter
    /\ (ret.op = "scan_file" /\ ~ret.res.ok) => counter = ret.pre.counter

\* the statement of C36 as written: every such failing call
C36_Original ==
    ret # Idle => /\ FailedOnExistingSource(ret) => CounterSkipsOne
                  /\ CounterKept

\* C36: a failing execute_sql, filter_dataset_sql, group_by,
\* add_calculated_column or import_file without an explicit name, on an
\* existing source and with SQL text that appends no statement of its own,
\* advances the counter by exactly one and leaves every dataset as it was,
\* so that the next result skips that value; a filter_dataset_structured
\* whose spec does not compile and a failing scan_file leave the counter as
\* it was.
C36_FailuresTakeCounter ==
    ret # Idle =>
        /\ (FailedOnExistingSource(ret) /\ ~AppendsStatements(ret)) => CounterSkipsOne
        /\ CounterKept

\* execute_sql has failed on a session whose table d exists, and the next
\* execute_sql succeeds under the value after the one the failure took
C36_Witness ==
    /\ ret.op = "execute_sql"
    /\ FailedOnExistingSource(ret)
    /\ ret.pre.counter >= 1
    /\ execute_sql(Session, "SELECT * FROM d").res
          = Ok(SqlResultPrefix \o <<"_">> \o FormatU64(ret.pre.counter + 2))

(***************************************************************************)
(* C37: progress of the desktop commands.                                  *)
(***************************************************************************)
\* the counter mutex is only taken by the holder of the session mutex, and
\* no thread that waits for the session mutex holds the counter mutex
LockOrder ==
    /\ counter_mutex \subseteq session_mutex
    /\ \A t \in Threads : pc[t] = "invoked" => t \notin counter_mutex

\* some command is running and no thread can take a step
Deadlocked ==
    /\ Running # {}
    /\ ~ENABLED (\E t \in Threads :
                    \/ LockSession(t) \/ Reject(t) \/ LockCounter(t)
                    \/ AddCounter(t) \/ ReturnCounter(t) \/ RegisterReturns(t)
                    \/ MakeOpenResultReturns(t) \/ UnlockSession(t))

SecondRemove(S, n) == remove_dataset(S, n)
ThirdRemove(S, n) == remove_dataset(SecondRemove(S, n).s, n)

\* what the three calls do, whatever dataset_info says in between
RemoveChain(r, S) ==
    /\ r.res = Ok(TRUE)
    /\ ~InTables(S, r.args.name)
    /\ S.transient = r.pre.transient
    /\ Denotes(S, r.args.name).substrate = "transient"
    /\ SecondRemove(S, r.args.name).res = Ok(TRUE)
    /\ InNeither(SecondRemove(S, r.args.name).s, r.args.name)
    /\ ThirdRemove(S, r.args.name).res = Ok(FALSE)
    /\ ThirdRemove(S, r.args.name).s = SecondRemove(S, r.args.name).s

\* dataset_info describes a transient dataset
InfoSaysTransient(S, n) ==
    /\ dataset_info(S, n).ok
    /\ dataset_info(S, n).val.persistent = FALSE

\* C38 as stated: dataset_info reports persistent = false for every
\* transient entry the first remove_dataset left in place.
C38_Original ==
    (ret.op = "remove_dataset" /\ InBoth(ret.pre, ret.args.name)) =>
        /\ RemoveChain(ret, Session)
        /\ InfoSaysTransient(Session, ret.args.name)

\* C38: a remove_dataset of a name that is a persistent table and a
\* transient key drops only the table and returns true, the transient entry
\* stays as it was; the name then resolves to the transient dataset:
\* dataset_info says persistent = false when the schema of the lazy frame
\* resolves and returns the Polars error of the frame when it does not; a
\* second remove_dataset removes that entry and returns true, and a third
\* returns false.
C38_RemoveTwiceThenFalse ==
    (ret.op = "remove_dataset" /\ InBoth(ret.pre, ret.args.name)) =>
        /\ RemoveChain(ret, Session)
        /\ IF transient[ret.args.name].fails
           THEN dataset_info(Session, ret.args.name) = Err("Polars")
           ELSE InfoSaysTransient(Session, ret.args.name)

\* the first remove_dataset of a name of both substrates has returned
C38_Witness ==
    /\ ret.op = "remove_dataset"
    /\ InBoth(ret.pre, ret.args.name)
    /\ InTransient(Session, ret.args.name)
    /\ InfoSaysTransient(Session, ret.args.name)

(***************************************************************************)
(* C39: backslashes in the value of a LIKE operator.                       *)
(***************************************************************************)
\* the pattern as the database reads it with escape character esc: each
\* element is a character that stands for itself or a wildcard
RECURSIVE PatternRoles(_, _)
PatternRoles(p, esc) ==
    IF p = <<>> THEN <<>>
    ELSE IF p[1] = esc /\ Len(p) >= 2
    THEN <<[c |-> p[2], wild |-> FALSE]>> \o PatternRoles(SubSeq(p, 3, Len(p)), esc)
    ELSE <<[c |-> p[1], wild |-> p[1] \in {"%", "_"}]>> \o PatternRoles(Tail(p), esc)

\* the roles meant: the wrapping % of the operator are wildcards, every
\* character of the value stands for itself
IntendedRoles(operator, value) ==
    (IF operator = "StartsWith" THEN <<>> ELSE <<[c |-> "%", wild |-> TRUE]>>)
        \o [i \in 1..Len(value) |-> [c |-> value[i], wild |-> FALSE]]
        \o (IF operator = "EndsWith" THEN <<>> ELSE <<[c |-> "%", wild |-> TRUE]>>)

\* the escape characters a reader of the pattern may have in force: none,
\* as the text has no ESCAPE clause, or the backslash escape_like writes
EscapeReadings == {NoEscape, "\\"}

\* the condition is one LIKE operator on a value that holds a backslash
LikeOnBackslash(r) ==
    /\ r.op = "to_sql_where"
    /\ WellFormed(r.args.spec)
    /\ Len(r.args.spec.conditions) = 1
    /\ r.args.spec.conditions[1].operator \in LikeOperators
    /\ \E i \in 1..Len(r.args.spec.conditions[1].value) :
           r.args.spec.conditions[1].value[i] = "\\"

\* the pattern literal of the compiled text
PatternOf(r) == Lex(r.res.val, 1)[Len(Lex(r.res.val, 1))].v

\* C39: in the pattern compiled for Contains, NotContains, StartsWith and
\* EndsWith on a value that contains or ends in a backslash, every wrapping
\* % is read as a wildcard and every % and _ of the value as itself.
C39_BackslashKeepsRoles ==
    LikeOnBackslash(ret) =>
        /\ ret.res.ok
        /\ \E esc \in EscapeReadings :
               PatternRoles(PatternOf(ret), esc)
                   = IntendedRoles(ret.args.spec.conditions[1].operator,
                                   ret.args.spec.conditions[1].value)

(***************************************************************************)
(* C40: open_file in a session that has opened no project.                 *)
(***************************************************************************)
\* thread t has run open_file and holds its OpenResult
OpenFileDone(t) ==
    /\ pc[t] = "opened"
    /\ cmd[t].op = "open_file"
    /\ open_result[t].some

\* C40: in a session on which neither new_project nor open_project has been
\* called (the desktop model has neither command, its session is the one of
\* RustoraSession::new()), open_file registers a transient dataset, returns
\* persistent = false and creates no persistent table.
C40_OpenFileScansWithoutProject ==
    \A t \in Threads :
        OpenFileDone(t) =>
            /\ open_result[t].v.ok
            /\ open_result[t].v.val.persistent = FALSE
            /\ InTransient(Session, open_result[t].v.val.dataset_name)
            /\ ~InTables(Session, open_result[t].v.val.dataset_name)

=============================================================================
